---- MODULE Spec2Model ----
(***************************************************************************)
(* A model of the bliss interpreter: the bytecode compiler and its symbol  *)
(* table, the stack VM, the tree-walking evaluator with its environment    *)
(* chain, and the REPL driver that threads compiler and VM state from one  *)
(* line to the next.                                                       *)
(*                                                                         *)
(* Conventions.  Positions and indexes are 0-based as in the Rust source;  *)
(* a Rust Vec v is a TLA+ sequence and v[i] is written At(v, i).  An f64   *)
(* is modelled by an integer: the literals and operators of the programs   *)
(* drawn below keep every intermediate result integral.  A Rust panic      *)
(* (index out of bounds, unwrap on None, unreachable!, arithmetic          *)
(* overflow in a build with overflow checks) is the result "panic".        *)
(***************************************************************************)
EXTENDS Integers, Sequences, FiniteSets, TLC

VARIABLES
    program,    \* the parsed Program handed to a back-end
    compiler,   \* the Compiler (with its result once compile has run)
    vm,         \* the VM, including run's local ip
    written,    \* history: the value each SetGlobal i last wrote, by i
    evaluator,  \* the Evaluator: environment heap, current env, progress
    pc,         \* where the drivers of the two back-ends stand
    table,      \* a SymbolTable driven directly (define / resolve)
    repl,       \* the REPL driver: State, analysis Context, last line
    front       \* a source text with the Lexer and the Parser reading it, or
                \* a Compiler whose emit and remove_last_pop are called directly

vars == <<program, compiler, vm, written, evaluator, pc, table, repl, front>>

\* ------------------------------------------------------------------------
\* Bounds of the model
\* ------------------------------------------------------------------------
MaxLit == 2         \* number literals are 0..MaxLit
MaxDefines == 5     \* define calls made on the directly driven table
MaxLines == 4       \* lines fed to one REPL session

\* ------------------------------------------------------------------------
\* Generic helpers
\* ------------------------------------------------------------------------
At(v, i) == v[i + 1]

Slice(v, from, to) == SubSeq(v, from + 1, to)

Put(m, k, x) == [n \in DOMAIN m \cup {k} |-> IF n = k THEN x ELSE m[n]]

\* ------------------------------------------------------------------------
\* object.rs: runtime values
\* ------------------------------------------------------------------------
Number(n) == [t |-> "Number", num |-> n]
String(s) == [t |-> "String", str |-> s]
Boolean(b) == [t |-> "Boolean", bool |-> b]
Array(a) == [t |-> "Array", items |-> a]
Hash(h) == [t |-> "Hash", map |-> h]
Return(o) == [t |-> "Return", inner |-> o]
Void == [t |-> "Void"]
Null == [t |-> "Null"]

\* The result of an f64 operation that is no integer (x / 0, x % 0, an
\* inexact quotient, or any operation on such a result): kept symbolically,
\* never equal to an integer, and every comparison with it is false.
NotIntegral(op, l, r) == [t |-> "Number", of |-> <<op, l, r>>]

Integral(o) == o.t = "Number" /\ DOMAIN o = {"t", "num"}

\* Rust's % on f64 is fmod: the result takes the sign of the dividend.
F64Rem(l, r) ==
    LET al == IF l < 0 THEN -l ELSE l
        ar == IF r < 0 THEN -r ELSE r
    IN  IF l < 0 THEN -(al % ar) ELSE al % ar

\* left + right, left - right, left * right, left / right, left % right on
\* two Object::Number.
F64Arith(op, l, r) ==
    IF ~(Integral(l) /\ Integral(r)) THEN NotIntegral(op, l, r)
    ELSE CASE op = "+" -> Number(l.num + r.num)
           [] op = "-" -> Number(l.num - r.num)
           [] op = "*" -> Number(l.num * r.num)
           [] op = "/" -> IF r.num /= 0 /\ F64Rem(l.num, r.num) = 0
                          THEN Number((IF (l.num < 0) = (r.num < 0) THEN 1 ELSE -1)
                                      * ((IF l.num < 0 THEN -l.num ELSE l.num)
                                         \div (IF r.num < 0 THEN -r.num ELSE r.num)))
                          ELSE NotIntegral(op, l, r)
           [] op = "%" -> IF r.num /= 0 THEN Number(F64Rem(l.num, r.num))
                          ELSE NotIntegral(op, l, r)

F64Compare(op, l, r) ==
    /\ Integral(l)
    /\ Integral(r)
    /\ CASE op = ">" -> l.num > r.num
         [] op = "<" -> l.num < r.num
         [] op = ">=" -> l.num >= r.num
         [] op = "<=" -> l.num <= r.num

\* ------------------------------------------------------------------------
\* code/mod.rs: opcodes and instruction encoding
\* ------------------------------------------------------------------------
Opcode ==
    <<"Constant", "Add", "Pop", "Sub", "Mul", "Div", "Mod", "True", "False",
      "Equal", "NotEqual", "Greater", "GreaterEqual", "Minus", "Bang",
      "JumpNotTruthy", "Jump", "GetGlobal", "SetGlobal">>

\* Opcode::Array is used by the compiler and the VM and made by their tests,
\* but the enum of code/mod.rs stops at SetGlobal; it is taken from the
\* opcode table of the specification (19 Array, widths [2]).
OpcodeTable == Opcode \o <<"Array">>

as_u8(op) == (CHOOSE i \in DOMAIN OpcodeTable : OpcodeTable[i] = op) - 1

\* None is modelled as the string "None".
from_u8(b) == IF b + 1 \in DOMAIN OpcodeTable THEN OpcodeTable[b + 1] ELSE "None"

get_definitions(op) ==
    IF op \in {"Constant", "JumpNotTruthy", "Jump", "GetGlobal", "SetGlobal", "Array"}
    THEN <<2>>
    ELSE <<>>

\* the operand, cast to u16, low byte first
put_u16_le(operand) ==
    LET u == operand % 65536 IN <<u % 256, u \div 256>>

\* put_u16 writes the operand, cast to u16, big-endian.
put_u16(operand) ==
    LET u == operand % 65536 IN <<u \div 256, u % 256>>

make(op, operands) ==
    LET widths == get_definitions(op)
        n == IF Len(operands) < Len(widths) THEN Len(operands) ELSE Len(widths)
    IN  <<as_u8(op)>> \o (IF n = 0 THEN <<>> ELSE put_u16(operands[1]))

read_u16(ins) == ins[1] * 256 + ins[2]

\* ------------------------------------------------------------------------
\* ast.rs: the tree.  A node is a record tagged by k; a block is a sequence
\* of statements.
\* ------------------------------------------------------------------------
ENumber(n) == [k |-> "Number", num |-> n]
EString(s) == [k |-> "String", str |-> s]
EBoolean(b) == [k |-> "Boolean", bool |-> b]
EIdent(n) == [k |-> "Ident", name |-> n]
EPrefix(op, right) == [k |-> "Prefix", op |-> op, right |-> right]
EInfix(left, op, right) == [k |-> "Infix", left |-> left, op |-> op, right |-> right]
EIf(c, t, e) == [k |-> "If", condition |-> c, consequence |-> t, alternative |-> e]
EFunction(ps, body) == [k |-> "Function", parameters |-> ps, body |-> body]
ECall(f, args) == [k |-> "Call", function |-> f, arguments |-> args]
EMatch(c, cases) == [k |-> "Match", condition |-> c, cases |-> cases]
EArray(es) == [k |-> "Array", items |-> es]
EHash(es) == [k |-> "Hash", pairs |-> es]
EMember(p, o, c) == [k |-> "Member", property |-> p, object |-> o, computed |-> c]

SAssign(pat, value) == [k |-> "Assign", pat |-> pat, value |-> value]
SReturn(value) == [k |-> "Return", value |-> value]
SExpr(value) == [k |-> "Expr", value |-> value]

PIdent(n) == [k |-> "Ident", name |-> n]
PNumber(n) == [k |-> "Number", num |-> n]
PBoolean(b) == [k |-> "Boolean", bool |-> b]
PArray(ps) == [k |-> "Array", items |-> ps]
PHash(ps) == [k |-> "Hash", pairs |-> ps]
PNothing == [k |-> "Nothing"]

\* ------------------------------------------------------------------------
\* compiler/symbol_table.rs
\* ------------------------------------------------------------------------
SymbolTable_new == [store |-> <<>>, num_definitions |-> 0]

\* define returns the symbol it made next to the table it changed.
define(s, name) ==
    LET symbol == [name |-> name, scope |-> "GLOBAL", index |-> s.num_definitions]
    IN  [symbol |-> symbol,
         table |-> [store |-> Put(s.store, name, symbol),
                    num_definitions |-> s.num_definitions + 1]]

\* An Option is a sequence: None is <<>> and Some(x) is <<x>>.
resolve(s, name) == IF name \in DOMAIN s.store THEN <<s.store[name]>> ELSE <<>>

\* ------------------------------------------------------------------------
\* compiler/mod.rs.  The Compiler record carries result ("ok", "err" or
\* "panic"): what the call that produced it returned.
\* ------------------------------------------------------------------------
Compiler_new ==
    LET ins == [code |-> "Pop", position |-> 0]
    IN  [instructions |-> <<>>, constants |-> <<>>,
         last_instruction |-> ins, previous_instruction |-> ins,
         symbols |-> SymbolTable_new, result |-> "ok"]

new_with_state(s, constants) ==
    [Compiler_new EXCEPT !.symbols = s, !.constants = constants]

add_constant(c, obj) == [c EXCEPT !.constants = Append(@, obj)]

set_last(c, op, pos) ==
    [c EXCEPT !.previous_instruction = c.last_instruction,
              !.last_instruction = [code |-> op, position |-> pos]]

\* emit: add_instructions appends the bytes at the old length, then set_last.
emit(c, op, operands) ==
    LET pos == Len(c.instructions)
    IN  set_last([c EXCEPT !.instructions = @ \o make(op, operands)], op, pos)

last_instruction_is(c, op) == c.last_instruction.code = op

remove_last_pop(c) ==
    [c EXCEPT !.instructions = Slice(c.instructions, 0, c.last_instruction.position),
              !.last_instruction = c.previous_instruction]

replace_instruction(c, pos, new) ==
    [c EXCEPT !.instructions =
        Slice(@, 0, pos) \o new \o Slice(@, pos + Len(new), Len(@))]

change_operand(c, pos, operand) ==
    replace_instruction(c, pos, make(from_u8(At(c.instructions, pos)), <<operand>>))

InfixOpcode(op) ==
    CASE op = "+" -> "Add"
      [] op = "-" -> "Sub"
      [] op = "*" -> "Mul"
      [] op = "/" -> "Div"
      [] op = "%" -> "Mod"
      [] op = ">" -> "Greater"
      [] op = ">=" -> "GreaterEqual"
      [] op = "==" -> "Equal"
      [] op = "!=" -> "NotEqual"
      [] OTHER -> "None"

RECURSIVE compile(_, _), compile_stmt(_, _), compile_expr(_, _), compile_elements(_, _)

\* `for stmt in program.0 { self.compile_stmt(stmt)?; }`
compile(c, block) ==
    IF block = <<>> THEN c
    ELSE LET c1 == compile_stmt(c, Head(block))
         IN  IF c1.result /= "ok" THEN c1 ELSE compile(c1, Tail(block))

compile_stmt(c, stmt) ==
    CASE stmt.k = "Assign" ->
            LET c1 == compile_expr(c, stmt.value)
            IN  IF c1.result /= "ok" THEN c1
                ELSE IF stmt.pat.k /= "Ident" THEN [c1 EXCEPT !.result = "panic"]
                ELSE LET d == define(c1.symbols, stmt.pat.name)
                     IN  emit([c1 EXCEPT !.symbols = d.table], "SetGlobal", <<d.symbol.index>>)
      [] stmt.k = "Expr" ->
            \* the Pop is emitted whether or not compile_expr failed
            LET c1 == compile_expr(c, stmt.value)
            IN  IF c1.result = "panic" THEN c1
                ELSE [emit([c1 EXCEPT !.result = "ok"], "Pop", <<>>) EXCEPT !.result = c1.result]
      [] OTHER -> c

\* `for el in elements { self.compile_expr(el)?; }`
compile_elements(c, elements) ==
    IF elements = <<>> THEN c
    ELSE LET c1 == compile_expr(c, Head(elements))
         IN  IF c1.result /= "ok" THEN c1 ELSE compile_elements(c1, Tail(elements))

compile_expr(c, expr) ==
    CASE expr.k = "Ident" ->
            LET symbol == resolve(c.symbols, expr.name)
            IN  IF symbol = <<>> THEN [c EXCEPT !.result = "err"]
                ELSE emit(c, "GetGlobal", <<symbol[1].index>>)
      [] expr.k = "Infix" ->
            IF expr.op \in {"<", "<="}
            THEN LET c1 == compile_expr(c, expr.right)
                     c2 == compile_expr(c1, expr.left)
                 IN  IF c1.result /= "ok" THEN c1
                     ELSE IF c2.result /= "ok" THEN c2
                     ELSE emit(c2, IF expr.op = "<" THEN "Greater" ELSE "GreaterEqual", <<>>)
            ELSE LET c1 == compile_expr(c, expr.left)
                     c2 == compile_expr(c1, expr.right)
                 IN  IF c1.result /= "ok" THEN c1
                     ELSE IF c2.result /= "ok" THEN c2
                     ELSE IF InfixOpcode(expr.op) = "None" THEN [c2 EXCEPT !.result = "err"]
                     ELSE emit(c2, InfixOpcode(expr.op), <<>>)
      [] expr.k = "Number" ->
            LET c1 == add_constant(c, Number(expr.num))
            IN  emit(c1, "Constant", <<Len(c1.constants) - 1>>)
      [] expr.k = "String" ->
            LET c1 == add_constant(c, String(expr.str))
            IN  emit(c1, "Constant", <<Len(c1.constants) - 1>>)
      [] expr.k = "Boolean" ->
            emit(c, IF expr.bool THEN "True" ELSE "False", <<>>)
      [] expr.k = "Prefix" ->
            LET c1 == compile_expr(c, expr.right)
            IN  IF c1.result /= "ok" THEN c1
                ELSE IF expr.op = "!" THEN emit(c1, "Bang", <<>>)
                ELSE IF expr.op = "-" THEN emit(c1, "Minus", <<>>)
                ELSE [c1 EXCEPT !.result = "err"]
      [] expr.k = "If" ->
            LET c1 == compile_expr(c, expr.condition)
                jump_not_truthy_pos == Len(c1.instructions)
                c2 == emit(c1, "JumpNotTruthy", <<9999>>)
                c3 == compile(c2, expr.consequence)
                c4 == IF last_instruction_is(c3, "Pop") THEN remove_last_pop(c3) ELSE c3
                jump_pos == Len(c4.instructions)
                c5 == emit(c4, "Jump", <<9999>>)
                after_consequence_pos == Len(c5.instructions)
                c6 == change_operand(c5, jump_not_truthy_pos, after_consequence_pos)
                c7 == compile(c6, expr.alternative)
                c8 == IF last_instruction_is(c7, "Pop") THEN remove_last_pop(c7) ELSE c7
                after_alternative_pos == Len(c8.instructions)
            IN  IF c1.result /= "ok" THEN c1
                ELSE IF c3.result /= "ok" THEN c3
                ELSE IF c7.result /= "ok" THEN c7
                ELSE change_operand(c8, jump_pos, after_alternative_pos)
      [] expr.k = "Array" ->
            LET c1 == compile_elements(c, expr.items)
            IN  IF c1.result /= "ok" THEN c1
                ELSE emit(c1, "Array", <<Len(expr.items)>>)
      [] OTHER -> c

\* ------------------------------------------------------------------------
\* vm/mod.rs.  The VM record carries run's local ip and result: "running"
\* while the loop of run is executing, then "ok" (run returned Ok), "err"
\* (run returned Err) or "panic".  overflow_checks tells whether the build
\* panics on usize overflow (debug) or wraps (release).
\* ------------------------------------------------------------------------
STACK_SIZE == 2048
GLOBALS_SIZE == 65536

VM_new(bytecode, checks) ==
    [instructions |-> bytecode.instructions, constants |-> bytecode.constants,
     stack |-> <<>>, globals |-> <<>>, sp |-> 0, ip |-> 0,
     result |-> "running", overflow_checks |-> checks]

new_with_globals(bytecode, s, checks) ==
    [VM_new(bytecode, checks) EXCEPT !.globals = s]

Bytecode(c) == [instructions |-> c.instructions, constants |-> c.constants]

\* stack.get(sp): None is <<>>, Some(x) is <<x>>.
last_stack_top(m) == IF 0 <= m.sp /\ m.sp < Len(m.stack) THEN <<At(m.stack, m.sp)>> ELSE <<>>

push(m, obj) ==
    IF m.sp >= STACK_SIZE THEN [m EXCEPT !.result = "err"]
    ELSE [m EXCEPT !.stack = IF m.sp >= Len(m.stack) THEN Append(m.stack, obj)
                              ELSE [m.stack EXCEPT ![m.sp + 1] = obj],
                   !.sp = m.sp + 1]

\* pop decrements sp and reads stack[sp]; with sp = 0 the decrement panics
\* under overflow checks and the read at usize::MAX panics without them.
\* The popped object is Popped of the VM that pop returns.
pop(m) ==
    IF m.sp = 0 \/ m.sp > Len(m.stack) THEN [m EXCEPT !.result = "panic"]
    ELSE [m EXCEPT !.sp = m.sp - 1]

Popped(m) == At(m.stack, m.sp)

VM_is_truthy(obj) == ~(obj.t = "Boolean" /\ obj.bool = FALSE)

set_global(m, index, obj) ==
    IF index >= GLOBALS_SIZE THEN [m EXCEPT !.result = "err"]
    ELSE IF index >= Len(m.globals) THEN [m EXCEPT !.globals = Append(m.globals, obj)]
    ELSE [m EXCEPT !.globals[index + 1] = obj]

build_array(m, start, end) ==
    Array([i \in 1..(end - start) |-> At(m.stack, start + i - 1)])

execute_bang_op(m) ==
    LET m1 == pop(m)
    IN  IF m1.result /= "running" THEN m1
        ELSE push(m1, Boolean(~VM_is_truthy(Popped(m1))))

execute_minus_op(m) ==
    LET m1 == pop(m)
    IN  IF m1.result /= "running" THEN m1
        ELSE IF Popped(m1).t /= "Number" THEN [m1 EXCEPT !.result = "err"]
        ELSE push(m1, F64Arith("-", Number(0), Popped(m1)))

execute_equality_op(m, op) ==
    LET m1 == pop(m)
        m2 == pop(m1)
        right == Popped(m1)
        left == Popped(m2)
    IN  IF m1.result /= "running" THEN m1
        ELSE IF m2.result /= "running" THEN m2
        ELSE push(m2, Boolean(IF op = "Equal" THEN left = right ELSE left /= right))

execute_binary_number_op(m, op, left, right) ==
    CASE op = "Add" -> push(m, F64Arith("+", left, right))
      [] op = "Sub" -> push(m, F64Arith("-", left, right))
      [] op = "Mul" -> push(m, F64Arith("*", left, right))
      [] op = "Div" -> push(m, F64Arith("/", left, right))
      [] op = "Mod" -> push(m, F64Arith("%", left, right))
      [] op = "Greater" -> push(m, Boolean(F64Compare(">", left, right)))
      [] op = "GreaterEqual" -> push(m, Boolean(F64Compare(">=", left, right)))
      [] OTHER -> [m EXCEPT !.result = "err"]

execute_binary_string_op(m, op, left, right) ==
    IF op = "Add" THEN push(m, String(left \o right))
    ELSE [m EXCEPT !.result = "err"]

execute_binary_op(m, op) ==
    LET m1 == pop(m)
        m2 == pop(m1)
        right == Popped(m1)
        left == Popped(m2)
    IN  IF m1.result /= "running" THEN m1
        ELSE IF m2.result /= "running" THEN m2
        ELSE IF left.t = "Number" /\ right.t = "Number"
             THEN execute_binary_number_op(m2, op, left, right)
        ELSE IF left.t = "String" /\ right.t = "String"
             THEN execute_binary_string_op(m2, op, left.str, right.str)
        ELSE [m2 EXCEPT !.result = "err"]

\* read_u16 of instructions[ip + 1..]: indexing the two bytes panics when
\* fewer than two are left.
Operand(m) == read_u16(Slice(m.instructions, m.ip + 1, Len(m.instructions)))

HasOperand(m) == m.ip + 2 < Len(m.instructions)

\* The body of one dispatch of run's loop, before the trailing `ip += 1`.
Dispatch(m, op) ==
    CASE op = "Constant" ->
            IF ~HasOperand(m) \/ Operand(m) >= Len(m.constants)
            THEN [m EXCEPT !.result = "panic"]
            ELSE LET m1 == push(m, At(m.constants, Operand(m)))
                 IN  IF m1.result /= "running" THEN m1 ELSE [m1 EXCEPT !.ip = @ + 2]
      [] op \in {"Add", "Sub", "Mul", "Div", "Mod", "Greater", "GreaterEqual"} ->
            execute_binary_op(m, op)
      [] op = "Minus" -> execute_minus_op(m)
      [] op = "Bang" -> execute_bang_op(m)
      [] op \in {"Equal", "NotEqual"} -> execute_equality_op(m, op)
      [] op = "True" -> push(m, Boolean(TRUE))
      [] op = "False" -> push(m, Boolean(FALSE))
      [] op = "Pop" -> pop(m)
      [] op = "Jump" ->
            IF ~HasOperand(m) THEN [m EXCEPT !.result = "panic"]
            ELSE IF Operand(m) = 0 /\ m.overflow_checks THEN [m EXCEPT !.result = "panic"]
            ELSE [m EXCEPT !.ip = Operand(m) - 1]
      [] op = "JumpNotTruthy" ->
            IF ~HasOperand(m) THEN [m EXCEPT !.result = "panic"]
            ELSE LET m1 == pop([m EXCEPT !.ip = @ + 2])
                 IN  IF m1.result /= "running" THEN m1
                     ELSE IF VM_is_truthy(Popped(m1)) THEN m1
                     ELSE IF Operand(m) = 0 /\ m.overflow_checks
                          THEN [m1 EXCEPT !.result = "panic"]
                     ELSE [m1 EXCEPT !.ip = Operand(m) - 1]
      [] op = "SetGlobal" ->
            IF ~HasOperand(m) THEN [m EXCEPT !.result = "panic"]
            ELSE LET m1 == pop([m EXCEPT !.ip = @ + 2])
                 IN  IF m1.result /= "running" THEN m1
                     ELSE set_global(m1, Operand(m), Popped(m1))
      [] op = "GetGlobal" ->
            IF ~HasOperand(m) THEN [m EXCEPT !.result = "panic"]
            ELSE IF Operand(m) >= Len(m.globals) THEN [m EXCEPT !.result = "panic"]
            ELSE push([m EXCEPT !.ip = @ + 2], At(m.globals, Operand(m)))
      [] op = "Array" ->
            IF ~HasOperand(m) THEN [m EXCEPT !.result = "panic"]
            ELSE IF Operand(m) > m.sp
                 \* sp - len overflows: a panic under overflow checks; without
                 \* them build_array's range is empty, sp wraps far above
                 \* STACK_SIZE and push returns "stack overflow".  The wrapped
                 \* sp, 2^64 + sp - len, is kept as the negative sp - len.
                 THEN IF m.overflow_checks THEN [m EXCEPT !.result = "panic"]
                      ELSE [m EXCEPT !.ip = @ + 2, !.sp = m.sp - Operand(m),
                                     !.result = "err"]
            ELSE LET array == build_array(m, m.sp - Operand(m), m.sp)
                 IN  push([m EXCEPT !.ip = @ + 2, !.sp = m.sp - Operand(m)], array)
      [] OTHER -> m

\* One iteration of `while ip < self.instructions.len()`; the loop's exit is
\* the step that turns result into "ok".
run_step(m) ==
    IF m.ip >= Len(m.instructions) THEN [m EXCEPT !.result = "ok"]
    ELSE LET op == from_u8(At(m.instructions, m.ip))
             m1 == Dispatch(m, op)
         IN  IF op = "None" THEN [m EXCEPT !.result = "panic"]
             ELSE IF m1.result /= "running" THEN m1
             ELSE [m1 EXCEPT !.ip = @ + 1]

RECURSIVE run(_)
run(m) ==
    IF m.result /= "running" THEN m
    ELSE CHOOSE r \in {run(next) : next \in {run_step(m)}} : TRUE

\* ------------------------------------------------------------------------
\* evaluation/env.rs.  Every Rc<RefCell<Environment>> is a cell of the heap
\* envs, named by its 1-based position; parent 0 is None.  Sharing an Rc is
\* sharing the position.
\* ------------------------------------------------------------------------
new_enclosed(parent) == [store |-> <<>>, parent |-> parent]

RECURSIVE get(_, _, _)
\* Environment::get on the cell id: None is <<>>, Some(x) is <<x>>.
get(envs, id, key) ==
    IF key \in DOMAIN envs[id].store THEN <<envs[id].store[key]>>
    ELSE IF envs[id].parent /= 0 THEN get(envs, envs[id].parent, key)
    ELSE <<>>

\* ------------------------------------------------------------------------
\* evaluation/mod.rs.  The Evaluator record is the heap, the current
\* environment env, and the EvalResult of the operation that produced it:
\* res is "ok" with the object val, "err" (a text error) or "panic".
\* ------------------------------------------------------------------------
Builtin(arity, name) == [t |-> "Builtin", arity |-> arity, name |-> name]

get_builtins ==
    [n \in {"head", "init", "last", "tail", "len", "log", "map"} |->
        Builtin(CASE n = "log" -> -1 [] n = "map" -> 2 [] OTHER -> 1, n)]

\* Evaluator::new(Rc::new(RefCell::new(Environment::new())))
Evaluator_new ==
    [envs |-> <<[store |-> get_builtins, parent |-> 0]>>, env |-> 1,
     res |-> "ok", val |-> Void]

Ok(e, v) == [e EXCEPT !.res = "ok", !.val = v]
Err(e) == [e EXCEPT !.res = "err", !.val = Void]
Panic(e) == [e EXCEPT !.res = "panic", !.val = Void]

\* env.borrow_mut().set(key, value) on the cell id
set(e, id, key, value) == [e EXCEPT !.envs[id].store = Put(@, key, value)]

\* Rc::new(RefCell::new(environment)): the new cell is the last of the heap
alloc(e, environment) == [e EXCEPT !.envs = Append(@, environment)]

is_truthy(input) == input.t = "Boolean" /\ input.bool = TRUE

eval_bang_operator(right) == Boolean(~is_truthy(right))

eval_prefix_expression(e, operator, right) ==
    IF operator = "!" THEN Ok(e, eval_bang_operator(right))
    ELSE IF operator = "-"
         THEN IF right.t = "Number" THEN Ok(e, F64Arith("-", Number(0), right))
              ELSE Err(e)
    ELSE Err(e)

eval_number_operator(e, left, operator, right) ==
    IF left.t = "Number" /\ right.t = "Number"
    THEN IF operator \in {"-", "*", "/", "%"} THEN Ok(e, F64Arith(operator, left, right))
         ELSE IF operator \in {">", "<", ">=", "<="}
              THEN Ok(e, Boolean(F64Compare(operator, left, right)))
         ELSE Err(e)
    ELSE Err(e)

eval_boolean_operator(e, left, operator, right) ==
    IF operator = "==" THEN Ok(e, Boolean(left = right))
    ELSE IF operator = "!=" THEN Ok(e, Boolean(left /= right))
    ELSE Err(e)

\* `for item in left..right` over the rounded bounds
eval_range_operator(e, left, right) ==
    IF Integral(left) /\ Integral(right)
    THEN Ok(e, Array([i \in 1..(right.num - left.num) |-> Number(left.num + i - 1)]))
    ELSE Err(e)

eval_plus_operator(e, left, right) ==
    IF left.t = "Number" /\ right.t = "Number" THEN Ok(e, F64Arith("+", left, right))
    ELSE IF left.t = "String" /\ right.t = "String" THEN Ok(e, String(left.str \o right.str))
    ELSE IF left.t = "Array" /\ right.t = "Array" THEN Ok(e, Array(left.items \o right.items))
    ELSE Err(e)

eval_infix_expression(e, left, operator, right) ==
    IF operator = "+" THEN eval_plus_operator(e, left, right)
    ELSE IF operator \in {"-", "*", "/", "%", ">", "<", ">=", "<="}
         THEN eval_number_operator(e, left, operator, right)
    ELSE IF operator \in {"==", "!="} THEN eval_boolean_operator(e, left, operator, right)
    ELSE IF operator = ".." THEN eval_range_operator(e, left, right)
    ELSE Err(e)

RECURSIVE eval_match_case(_, _)
eval_match_case(case, condition) ==
    IF case.t = "Array"
    THEN IF condition.t = "Array"
         \* condition[index] is read for every index of case; both are the
         \* same length or case is the shorter (it was zipped with condition)
         THEN \A i \in DOMAIN case.items :
                 i \in DOMAIN condition.items /\ eval_match_case(case.items[i], condition.items[i])
         ELSE FALSE
    ELSE IF case.t = "Ident" THEN TRUE
    ELSE case = condition

\* The builtins of evaluation/builtins.rs that need no evaluator.  Slicing
\* array[0..len - 1] or array[1..len] of the empty array panics.
builtin_apply(e, name, args) ==
    LET arg == args[1]
    IN  CASE name = "len" ->
                Ok(e, Number(CASE arg.t = "Array" -> Len(arg.items)
                               [] arg.t = "Hash" -> Cardinality(DOMAIN arg.map)
                               [] arg.t = "Function" -> Len(arg.parameters)
                               [] OTHER -> 0))
          [] name = "log" -> Ok(e, Void)
          [] name = "init" ->
                IF arg.t /= "Array" THEN Err(e)
                ELSE IF arg.items = <<>> THEN Panic(e)
                ELSE Ok(e, Array(Slice(arg.items, 0, Len(arg.items) - 1)))
          [] name = "tail" ->
                IF arg.t /= "Array" THEN Err(e)
                ELSE IF arg.items = <<>> THEN Panic(e)
                ELSE Ok(e, Array(Slice(arg.items, 1, Len(arg.items))))
          [] name = "head" ->
                IF arg.t /= "Array" THEN Err(e)
                ELSE Ok(e, IF arg.items = <<>> THEN Null ELSE arg.items[1])
          [] name = "last" ->
                IF arg.t /= "Array" THEN Err(e)
                ELSE Ok(e, IF arg.items = <<>> THEN Null ELSE arg.items[Len(arg.items)])

RECURSIVE eval_block_stmt(_, _), block_loop(_, _, _), eval_stmt(_, _), eval_expr(_, _),
          eval_items(_, _, _), eval_hash(_, _, _), assign_array(_, _, _, _),
          eval_function_call(_, _, _), eval_call_expression(_, _, _),
          builtin_map(_, _, _, _), eval_member_components(_, _, _, _),
          eval_match_expression(_, _, _), match_cases(_, _, _, _),
          eval_pattern_matching(_, _, _, _), pattern_array(_, _, _, _, _),
          pattern_hash(_, _, _, _, _)

\* `for stmt in stmts.0`: a Return is handed on still wrapped
block_loop(e, stmts, result) ==
    IF stmts = <<>> THEN Ok(e, result)
    ELSE LET e1 == eval_stmt(e, Head(stmts))
         IN  IF e1.res /= "ok" THEN e1
             ELSE IF e1.val.t = "Return" THEN e1
             ELSE block_loop(e1, Tail(stmts), e1.val)

eval_block_stmt(e, stmts) == block_loop(e, stmts, Void)

\* names.iter().enumerate().for_each(...) of the Pattern::Array assignment,
\* from position i on
assign_array(e, names, values, i) ==
    IF i > Len(names) THEN e
    ELSE IF names[i].k /= "Ident" THEN assign_array(e, names, values, i + 1)
    ELSE IF i > Len(values) THEN Panic(e)
    ELSE assign_array(set(e, e.env, names[i].name, values[i]), names, values, i + 1)

eval_stmt(e, stmt) ==
    CASE stmt.k = "Expr" -> eval_expr(e, stmt.value)
      [] stmt.k = "Return" ->
            LET e1 == eval_expr(e, stmt.value)
            IN  IF e1.res /= "ok" THEN e1 ELSE Ok(e1, Return(e1.val))
      [] stmt.k = "Assign" ->
            LET e1 == eval_expr(e, stmt.value)
                e2 == CASE stmt.pat.k = "Ident" -> set(e1, e1.env, stmt.pat.name, e1.val)
                        [] stmt.pat.k = "Array" /\ e1.val.t = "Array" ->
                                assign_array(e1, stmt.pat.items, e1.val.items, 1)
                        [] OTHER -> e1
            IN  IF e1.res /= "ok" THEN e1
                ELSE IF e2.res /= "ok" THEN e2
                ELSE Ok(e2, Void)
      [] OTHER -> Err(e)

\* the loop of Expr::Array and of a call's arguments: items collects the
\* values, handed back in val as an Array
eval_items(e, parts, items) ==
    IF parts = <<>> THEN Ok(e, Array(items))
    ELSE LET e1 == eval_expr(e, Head(parts))
         IN  IF e1.res /= "ok" THEN e1
             ELSE eval_items(e1, Tail(parts), Append(items, e1.val))

\* the loop of Expr::Hash over its (key, value) pairs
eval_hash(e, values, hash) ==
    IF values = <<>> THEN Ok(e, Hash(hash))
    ELSE LET e1 == eval_expr(e, Head(values)[2])
         IN  IF e1.res /= "ok" THEN e1
             ELSE eval_hash(e1, Tail(values), Put(hash, Head(values)[1], e1.val))

eval_expr(e, node) ==
    CASE node.k = "Number" -> Ok(e, Number(node.num))
      [] node.k = "String" -> Ok(e, String(node.str))
      [] node.k = "Boolean" -> Ok(e, Boolean(node.bool))
      [] node.k = "Symbol" -> Ok(e, [t |-> "Symbol", name |-> node.name])
      [] node.k = "Array" -> eval_items(e, node.items, <<>>)
      [] node.k = "Hash" -> eval_hash(e, node.pairs, <<>>)
      [] node.k = "Prefix" ->
            LET e1 == eval_expr(e, node.right)
            IN  IF e1.res /= "ok" THEN e1
                ELSE eval_prefix_expression(e1, node.op, e1.val)
      [] node.k = "Infix" ->
            LET e1 == eval_expr(e, node.left)
                e2 == eval_expr(e1, node.right)
            IN  IF e1.res /= "ok" THEN e1
                ELSE IF e2.res /= "ok" THEN e2
                ELSE eval_infix_expression(e2, e1.val, node.op, e2.val)
      [] node.k = "If" ->
            \* eval_if_expression
            LET e1 == eval_expr(e, node.condition)
            IN  IF e1.res /= "ok" THEN e1
                ELSE IF is_truthy(e1.val) THEN eval_block_stmt(e1, node.consequence)
                ELSE eval_block_stmt(e1, node.alternative)
      [] node.k = "Match" -> eval_match_expression(e, node.condition, node.cases)
      [] node.k = "Ident" ->
            LET value == get(e.envs, e.env, node.name)
            IN  IF value = <<>> THEN Err(e) ELSE Ok(e, value[1])
      [] node.k = "Call" -> eval_call_expression(e, node.function, node.arguments)
      [] node.k = "Member" ->
            \* eval_member_expression
            LET e1 == eval_expr(e, node.object)
                e2 == IF node.computed THEN eval_expr(e1, node.property)
                      ELSE IF node.property.k = "Ident"
                           THEN Ok(e1, [t |-> "Ident", name |-> node.property.name])
                      ELSE Panic(e1)
            IN  IF e1.res /= "ok" THEN e1
                ELSE IF e2.res /= "ok" THEN e2
                ELSE eval_member_components(e2, e2.val, e1.val, node.computed)
      [] node.k = "Function" ->
            \* env: Environment::new_enclosed(&self.env).into()
            LET e1 == alloc(e, new_enclosed(e.env))
            IN  Ok(e1, [t |-> "Function", parameters |-> node.parameters,
                        body |-> node.body, env |-> Len(e1.envs)])

\* The map builtin: its evaluator is a clone of the caller's, so the calls
\* share the heap and leave the caller's env alone.
builtin_map(e, array, function, arr) ==
    IF array = <<>> THEN Ok(e, Array(arr))
    ELSE LET e1 == eval_function_call(e, function, <<Head(array)>>)
         IN  IF e1.res /= "ok" THEN e1
             ELSE builtin_map(e1, Tail(array), function, Append(arr, e1.val))

eval_function_call(e, function, args) ==
    CASE function.t = "Builtin" ->
            IF function.arity < 0 \/ function.arity = Len(args)
            THEN IF function.name /= "map" THEN builtin_apply(e, function.name, args)
                 ELSE IF args[1].t /= "Array" \/ args[2].t /= "Function" THEN Err(e)
                 ELSE LET e1 == builtin_map(e, args[1].items, args[2], <<>>)
                      IN  [e1 EXCEPT !.env = e.env]
            ELSE Err(e)
      [] function.t = "Function" ->
            IF Len(function.parameters) /= Len(args) THEN Err(e)
            ELSE LET function_env ==
                        [new_enclosed(function.env) EXCEPT !.store =
                            [n \in {function.parameters[i] : i \in DOMAIN args} |->
                                args[CHOOSE i \in DOMAIN args :
                                        /\ function.parameters[i] = n
                                        /\ \A j \in DOMAIN args :
                                              function.parameters[j] = n => j <= i]]]
                     e1 == alloc(e, function_env)
                     e2 == eval_block_stmt([e1 EXCEPT !.env = Len(e1.envs)], function.body)
                 IN  \* `let res = self.eval_block_stmt(body)?;` leaves on an
                     \* error before `self.env = env;` is reached
                     IF e2.res /= "ok" THEN e2
                     ELSE [e2 EXCEPT !.env = function.env]
      [] OTHER -> Err(e)

\* eval_call_expression repeats the body of eval_function_call after it has
\* evaluated the callee and the arguments.
eval_call_expression(e, function, arguments) ==
    LET e1 == eval_expr(e, function)
        e2 == eval_items(e1, arguments, <<>>)
    IN  IF e1.res /= "ok" THEN e1
        ELSE IF e2.res /= "ok" THEN e2
        ELSE eval_function_call(e2, e1.val, e2.val.items)

eval_member_components(e, property, object, computed) ==
    CASE property.t = "Number" /\ object.t = "Array" ->
            \* arr.get(n as usize).unwrap(): the cast saturates at 0
            LET n == IF ~Integral(property) \/ property.num < 0 THEN 0 ELSE property.num
            IN  IF n >= Len(object.items) THEN Panic(e) ELSE Ok(e, At(object.items, n))
      [] property.t = "String" /\ object.t = "Hash" ->
            IF property.str \in DOMAIN object.map THEN Ok(e, object.map[property.str]) ELSE Panic(e)
      [] property.t = "Ident" ->
            IF computed
            THEN LET index == get(e.envs, e.env, property.name)
                 IN  IF index = <<>> THEN Panic(e)
                     ELSE eval_member_components(e, index[1], object, computed)
            ELSE eval_member_components(e, String(property.name), object, computed)
      [] OTHER -> Err(e)

\* `for (pattern, condition) in array.iter().zip(condition_array)`, from
\* position i on
pattern_array(e, env, array, condition_array, arr) ==
    LET i == Len(arr) + 1
    IN  IF i > Len(array) \/ i > Len(condition_array) THEN Ok(e, Array(arr))
        ELSE LET e1 == eval_pattern_matching(e, env, array[i], condition_array[i])
             IN  IF e1.res /= "ok" THEN e1
                 ELSE pattern_array(e1, env, array, condition_array, Append(arr, e1.val))

\* `for (key, alias) in hash`: alias is an Option
pattern_hash(e, env, hash, condition_hash, arr) ==
    LET i == Len(arr) + 1
        key == hash[i][1]
        alias == hash[i][2]
        condition == IF key \in DOMAIN condition_hash THEN condition_hash[key] ELSE Null
        pattern == PIdent(IF alias = <<>> THEN key ELSE alias[1])
        e1 == eval_pattern_matching(e, env, pattern, condition)
    IN  IF i > Len(hash) THEN Ok(e, Array(arr))
        ELSE IF e1.res /= "ok" THEN e1
        ELSE pattern_hash(e1, env, hash, condition_hash, Append(arr, e1.val))

eval_pattern_matching(e, env, case, condition) ==
    CASE case.k = "Nothing" -> Ok(e, [t |-> "Ident", name |-> "_"])
      [] case.k = "Ident" -> Ok(set(e, env, case.name, condition), condition)
      [] case.k = "Array" ->
            IF condition.t /= "Array" THEN Err(e)
            ELSE pattern_array(e, env, case.items, condition.items, <<>>)
      [] case.k = "Hash" ->
            IF condition.t /= "Hash" THEN Err(e)
            ELSE pattern_hash(e, env, case.pairs, condition.map, <<>>)
      [] case.k = "String" -> Ok(e, String(case.str))
      [] case.k = "Number" -> Ok(e, Number(case.num))
      [] case.k = "Symbol" -> Ok(e, [t |-> "Symbol", name |-> case.name])
      [] case.k = "Boolean" -> Ok(e, Boolean(case.bool))

\* `for (case, consequence) in cases`: env is Rc::clone(&current), the
\* current environment itself
match_cases(e, current, condition, cases) ==
    IF cases = <<>> THEN Ok(e, Void)
    ELSE LET case == Head(cases)[1]
             consequence == Head(cases)[2]
             env == current
             e1 == eval_pattern_matching(e, env, case, condition)
             e2 == eval_block_stmt([e1 EXCEPT !.env = env], consequence)
         IN  IF e1.res /= "ok" THEN e1
             ELSE IF eval_match_case(e1.val, condition)
                  THEN IF e2.res /= "ok" THEN e2 ELSE [e2 EXCEPT !.env = current]
             ELSE match_cases(e1, current, condition, Tail(cases))

eval_match_expression(e, condition, cases) ==
    LET e1 == eval_expr(e, condition)
    IN  IF e1.res /= "ok" THEN e1
        ELSE match_cases(e1, e1.env, e1.val, cases)

\* ------------------------------------------------------------------------
\* The programs handed to the back-ends
\* ------------------------------------------------------------------------
Lits == {ENumber(n) : n \in 0..MaxLit}

Atoms == Lits \cup {EBoolean(TRUE), EBoolean(FALSE), EString("s")}

InfixOps == {"+", "-", "*", "/", "%", ">", "<", ">=", "<=", "==", "!="}

\* Expressions of the kinds both back-ends implement.
CommonExprs ==
    Atoms
    \cup {EPrefix(op, x) : op \in {"!", "-"}, x \in Atoms}
    \cup {EPrefix("!", EPrefix("!", x)) : x \in Atoms}
    \cup {EInfix(x, op, y) : x \in Atoms, op \in InfixOps, y \in Atoms}
    \cup {EIf(x, <<SExpr(ENumber(1))>>, <<SExpr(ENumber(2))>>) : x \in Atoms}
    \cup {EArray(<<>>)}
    \cup {EArray(<<x>>) : x \in Atoms}
    \cup {EArray(<<x, y>>) : x \in Lits, y \in Atoms}
    \cup {EInfix(EArray(<<x>>), "+", EArray(<<y>>)) : x \in Lits, y \in Lits}

\* One expression, or an assignment and an expression that reads it.
CommonPrograms ==
    {<<SExpr(x)>> : x \in CommonExprs}
    \cup {<<SAssign(PIdent("a"), x), SExpr(EInfix(EIdent("a"), op, y))>> :
            x \in Lits, op \in {"+", "==", "<"}, y \in Lits}

\* If-expressions over every shape of block.
Blocks ==
    {<<>>, <<SExpr(ENumber(1))>>, <<SExpr(ENumber(1)), SExpr(ENumber(2))>>}
    \cup {<<SAssign(PIdent(n), ENumber(MaxLit))>> : n \in {"a", "b"}}
    \cup {<<SAssign(PIdent(n), ENumber(MaxLit)), SExpr(ENumber(1))>> : n \in {"a", "b"}}

IfPrograms ==
    {<<SExpr(EIf(c, t, e))>> \o rest :
        c \in {EBoolean(TRUE), EBoolean(FALSE), ENumber(1)}, t \in Blocks, e \in Blocks,
        rest \in {<<>>, <<SExpr(EInfix(EIdent("a"), "+", ENumber(0)))>>,
                  <<SExpr(EInfix(EIdent("b"), "+", ENumber(0)))>>}}

\* Function literals and calls: bodies that end in a value, return early,
\* or fail.
Bodies ==
    {<<SExpr(ENumber(1))>>, <<SReturn(ENumber(1))>>,
     <<SReturn(ENumber(1)), SExpr(ENumber(2))>>,
     <<SExpr(EIdent("x"))>>, <<SExpr(EPrefix("-", EBoolean(TRUE)))>>}

CallPrograms ==
    {<<SAssign(PIdent("f"), EFunction(<<>>, bf)),
       SAssign(PIdent("g"), EFunction(<<"p">>, bg))>> \o use :
        bf \in Bodies, bg \in Bodies,
        use \in {<<SExpr(ECall(EIdent("f"), <<>>))>>,
                 <<SAssign(PIdent("x"), ECall(EIdent("f"), <<>>)), SExpr(EIdent("x"))>>,
                 <<SExpr(EArray(<<ECall(EIdent("f"), <<>>)>>))>>,
                 <<SExpr(EInfix(ECall(EIdent("g"), <<ENumber(1)>>), "+", ENumber(1)))>>,
                 <<SExpr(ECall(EIdent("f"), <<>>)), SAssign(PIdent("x"), ENumber(2)),
                   SExpr(ECall(EIdent("g"), <<ENumber(1)>>)), SExpr(EIdent("x"))>>,
                 <<SAssign(PIdent("h"),
                           EFunction(<<>>, <<SExpr(ECall(EIdent("f"), <<>>)),
                                             SExpr(ENumber(0))>>)),
                   SExpr(ECall(EIdent("h"), <<>>))>>}}

\* Match expressions: scrutinees and one or two cases.
Scrutinees ==
    Lits \cup {EBoolean(TRUE), EArray(<<>>), EArray(<<ENumber(1)>>),
               EArray(<<ENumber(1), ENumber(2)>>)}

Patterns ==
    {PNumber(1), PBoolean(TRUE), PIdent("a"), PNothing, PArray(<<>>),
     PArray(<<PIdent("a")>>), PArray(<<PNumber(1), PIdent("b")>>)}

Cases ==
    {<<<<p, <<SExpr(ENumber(1))>>>>>> : p \in Patterns}
    \cup {<<<<p, <<SExpr(ENumber(1))>>>>, <<q, <<SExpr(ENumber(2))>>>>>> :
            p \in Patterns, q \in Patterns}

MatchPrograms == {<<SExpr(EMatch(x, cs))>> : x \in Scrutinees, cs \in Cases}

\* Match expressions over hashes: a hash pattern naming a key that is
\* there or missing, with or without an alias; the body reads the name bound.
HashMatchPrograms ==
    {<<SExpr(EMatch(EHash(h), <<<<PHash(<<<<key, alias>>>>),
                                  <<SExpr(EIdent(IF alias = <<>> THEN key ELSE alias[1]))>>>>>>))>> :
        h \in {<<>>, <<<<"k", ENumber(1)>>>>},
        key \in {"k", "j"}, alias \in {<<>>, <<"z">>}}

\* Assignments to an array pattern, then a read of a name of the pattern.
ArrayAssignPrograms ==
    {<<SAssign(PArray(names), value), SExpr(EIdent(n))>> :
        names \in {<<PIdent("a")>>, <<PIdent("a"), PIdent("b")>>},
        value \in {ENumber(1), EArray(<<>>), EArray(<<ENumber(1)>>),
                   EArray(<<ENumber(1), ENumber(2)>>)},
        n \in {"a", "b"}}

\* Assignments to a hash pattern, then a read of the name it binds.
HashAssignPrograms ==
    {<<SAssign(PHash(<<<<key, alias>>>>), EHash(h)),
       SExpr(EIdent(IF alias = <<>> THEN key ELSE alias[1]))>> :
        h \in {<<>>, <<<<"k", ENumber(1)>>>>},
        key \in {"k", "j"}, alias \in {<<>>, <<"z">>}}

\* Calls of head, last, tail and init, and member expressions.
BuiltinPrograms ==
    {<<SExpr(ECall(EIdent(f), <<x>>))>> :
        f \in {"head", "last", "tail", "init"},
        x \in {ENumber(1), EArray(<<>>), EArray(<<ENumber(1)>>),
               EArray(<<ENumber(1), ENumber(2)>>)}}

MemberPrograms ==
    {<<SExpr(EMember(ENumber(n), EArray(<<ENumber(1)>>), TRUE))>> : n \in 0..MaxLit}
    \cup {<<SExpr(EMember(EIdent(key), EHash(<<<<"k", ENumber(1)>>>>), FALSE))>> :
            key \in {"k", "j"}}
    \cup {<<SExpr(EMember(EString(key), EHash(<<<<"k", ENumber(1)>>>>), TRUE))>> :
            key \in {"k", "j"}}

\* Expression statements of the kinds compile_expr has no arm for, alone or
\* as the one element of an array literal.
SkippedExprs ==
    {EHash(<<>>), EHash(<<<<"k", ENumber(1)>>>>),
     EFunction(<<>>, <<SExpr(ENumber(1))>>),
     ECall(EIdent("len"), <<EArray(<<>>)>>),
     EMatch(ENumber(1), <<<<PNothing, <<SExpr(ENumber(1))>>>>>>),
     EMember(ENumber(0), EArray(<<ENumber(1)>>), TRUE)}

SkippedPrograms ==
    {<<SExpr(x)>> : x \in SkippedExprs}
    \cup {<<SExpr(EArray(<<x>>))>> : x \in SkippedExprs}
    \cup {<<SExpr(EArray(<<ENumber(1), x>>))>> : x \in SkippedExprs}

Programs ==
    CommonPrograms \cup IfPrograms \cup CallPrograms \cup MatchPrograms
    \cup HashMatchPrograms \cup ArrayAssignPrograms \cup HashAssignPrograms
    \cup BuiltinPrograms \cup MemberPrograms \cup SkippedPrograms

\* ------------------------------------------------------------------------
\* The two back-ends on one program: the compiler and the VM as the tests
\* of vm/vm_test.rs drive them, and Evaluator::eval_program
\* ------------------------------------------------------------------------
NoVM == [result |-> "none"]

Idle == [status |-> "idle"]

Init ==
    /\ program \in Programs
    /\ compiler = Compiler_new
    /\ vm = NoVM
    /\ written = <<>>
    /\ evaluator = Evaluator_new
    /\ pc = [compiler |-> "new", next |-> 0, value |-> Void, evaluator |-> "running"]
    /\ table = Idle
    /\ repl = Idle
    /\ front = Idle

\* run_tests: `comp.compile(program)`, then `VM::new(comp.into())` unless
\* compile failed
Compile ==
    /\ pc.compiler = "new"
    /\ compiler' = compile(compiler, program)
    /\ pc' = [pc EXCEPT !.compiler = "compiled"]
    /\ \E checks \in BOOLEAN :
          vm' = IF compiler'.result = "ok" THEN VM_new(Bytecode(compiler'), checks)
                ELSE NoVM
    /\ UNCHANGED <<program, written, evaluator, table, repl, front>>

\* The opcode run is about to dispatch ("None" past the end)
Fetch(m) ==
    IF m.result = "running" /\ m.ip < Len(m.instructions)
    THEN from_u8(At(m.instructions, m.ip))
    ELSE "None"

\* One iteration of the loop of VM::run, or its exit
Step ==
    /\ vm.result = "running"
    /\ vm' = run_step(vm)
    /\ written' = IF Fetch(vm) = "SetGlobal" /\ vm'.result = "running"
                  THEN Put(written, Operand(vm), Popped(pop(vm)))
                  ELSE written
    /\ UNCHANGED <<program, compiler, evaluator, pc, table, repl, front>>

\* One iteration of the loop of eval_program, or its exit
EvalStmt ==
    /\ pc.evaluator = "running"
    /\ IF pc.next >= Len(program)
       THEN /\ pc' = [pc EXCEPT !.evaluator = "ok"]
            /\ UNCHANGED evaluator
       ELSE LET e1 == eval_stmt(evaluator, At(program, pc.next))
            IN  /\ evaluator' = e1
                /\ pc' = IF e1.res /= "ok" THEN [pc EXCEPT !.evaluator = e1.res]
                         ELSE IF e1.val.t = "Return"
                              THEN [pc EXCEPT !.evaluator = "ok", !.value = e1.val.inner]
                         ELSE [pc EXCEPT !.next = @ + 1, !.value = e1.val]
    /\ UNCHANGED <<program, compiler, vm, written, table, repl, front>>

Next == Compile \/ Step \/ EvalStmt

Spec == Init /\ [][Next]_vars

\* ------------------------------------------------------------------------
\* compiler/symbol_table.rs on its own: any sequence of define and resolve.
\* table.first and table.handed are history: the index each name was given
\* at its first define, and every index define has handed out.
\* ------------------------------------------------------------------------
Names == {"a", "b", "c"}

InitSym ==
    /\ program = <<>>
    /\ compiler = Compiler_new
    /\ vm = NoVM
    /\ written = <<>>
    /\ evaluator = Evaluator_new
    /\ pc = [compiler |-> "new", next |-> 0, value |-> Void, evaluator |-> "running"]
    /\ table = [status |-> "open", symbols |-> SymbolTable_new, first |-> <<>>,
                handed |-> {}, found |-> <<>>]
    /\ repl = Idle
    /\ front = Idle

Define ==
    /\ table.symbols.num_definitions < MaxDefines
    /\ \E name \in Names :
          LET d == define(table.symbols, name)
          IN  table' = [table EXCEPT
                  !.symbols = d.table,
                  !.first = IF name \in DOMAIN @ THEN @
                            ELSE Put(@, name, d.symbol.index),
                  !.handed = @ \cup {d.symbol.index}]
    /\ UNCHANGED <<program, compiler, vm, written, evaluator, pc, repl, front>>

Resolve ==
    /\ \E name \in Names : table' = [table EXCEPT !.found = resolve(table.symbols, name)]
    /\ UNCHANGED <<program, compiler, vm, written, evaluator, pc, repl, front>>

SpecSym == InitSym /\ [][Define \/ Resolve]_vars

\* ------------------------------------------------------------------------
\* semantics/context.rs and semantics/analyze.rs.  locals keeps the names
\* only: no analysis reads the expression stored with a name.  A result is
\* "ok", "err" or "diverges" (the call never returns).
\* ------------------------------------------------------------------------
Context_default == [parent |-> <<>>, in_function |-> FALSE, locals |-> {}]

new_child_block(self) ==
    [parent |-> <<self>>, in_function |-> self.in_function, locals |-> {}]

new_function_block(self) ==
    [parent |-> <<self>>, in_function |-> TRUE, locals |-> {}]

add(self, name) == [self EXCEPT !.locals = @ \cup {name}]

\* The loop of has re-reads self.parent and never moves up: it ends only
\* when there is no parent or the parent holds the name.
has(self, name) ==
    IF name \in self.locals THEN "true"
    ELSE IF self.parent = <<>> THEN "false"
    ELSE IF name \in self.parent[1].locals THEN "true"
    ELSE "diverges"

RECURSIVE lookup(_, _)
\* lookup(name).is_some(): the locals of the model hold no expression
lookup(self, name) ==
    IF name \in self.locals THEN TRUE
    ELSE IF self.parent /= <<>> THEN lookup(self.parent[1], name)
    ELSE FALSE

\* Err over Ok, and a call that never returns over both
Worse(r1, r2) ==
    IF "diverges" \in {r1, r2} THEN "diverges"
    ELSE IF "err" \in {r1, r2} THEN "err"
    ELSE "ok"

RECURSIVE analyze_stmts(_, _), analyze_stmt(_, _), analyze_expr(_, _), analyze_items(_, _)
\* [context, res]: the context the statements left and the result
analyze_stmts(block, context) ==
    IF block = <<>> THEN [context |-> context, res |-> "ok"]
    ELSE LET r1 == analyze_stmt(Head(block), context)
         IN  IF r1.res = "diverges" THEN r1
             ELSE LET r2 == analyze_stmts(Tail(block), r1.context)
                  IN  [context |-> r2.context, res |-> Worse(r1.res, r2.res)]

RECURSIVE AddAll(_, _)
AddAll(context, patterns) ==
    IF patterns = <<>> THEN [context |-> context, res |-> "ok"]
    ELSE LET rest == AddAll(IF Head(patterns).k = "Ident"
                            THEN add(context, Head(patterns).name)
                            ELSE context, Tail(patterns))
         IN  [context |-> rest.context,
              res |-> IF Head(patterns).k = "Ident" THEN rest.res ELSE "err"]

analyze_stmt(stmt, context) ==
    CASE stmt.k = "Expr" ->
            [context |-> context, res |-> analyze_expr(stmt.value, context)]
      [] stmt.k = "Assign" ->
            LET added ==
                    CASE stmt.pat.k = "Array" -> AddAll(context, stmt.pat.items)
                      [] stmt.pat.k = "Hash" ->
                            AddAll(context, [i \in DOMAIN stmt.pat.pairs |->
                                                 stmt.pat.pairs[i][2]])
                      [] stmt.pat.k = "Ident" ->
                            [context |-> add(context, stmt.pat.name), res |-> "ok"]
                      [] OTHER -> [context |-> context, res |-> "ok"]
            IN  [context |-> added.context,
                 res |-> Worse(added.res, analyze_expr(stmt.value, added.context))]
      [] OTHER -> [context |-> context, res |-> "ok"]

analyze_items(items, context) ==
    IF items = <<>> THEN "ok"
    ELSE LET r1 == analyze_expr(Head(items), context)
         IN  IF r1 = "diverges" THEN r1
             ELSE Worse(r1, analyze_items(Tail(items), context))

analyze_expr(expr, context) ==
    CASE expr.k = "Ident" ->
            LET found == has(context, expr.name)
            IN  IF found = "diverges" THEN "diverges"
                ELSE IF found = "true" THEN "ok" ELSE "err"
      [] expr.k = "If" ->
            LET r1 == analyze_expr(expr.condition, context)
                r2 == analyze_stmts(expr.consequence, new_child_block(context)).res
                r3 == analyze_stmts(expr.alternative, new_child_block(context)).res
            IN  IF r1 = "diverges" THEN r1
                ELSE IF r2 = "diverges" THEN r2
                ELSE Worse(r1, Worse(r2, r3))
      [] expr.k = "Array" -> analyze_items(expr.items, context)
      [] expr.k = "Hash" ->
            analyze_items([i \in DOMAIN expr.pairs |-> expr.pairs[i][2]], context)
      [] expr.k = "Function" ->
            LET inner == [new_function_block(context) EXCEPT
                              !.locals = {expr.parameters[i] : i \in DOMAIN expr.parameters}]
            IN  analyze_stmts(expr.body, inner).res
      [] OTHER -> "ok"

\* ------------------------------------------------------------------------
\* src/repl.rs: start and eval.  repl.status is "ready" at the prompt,
\* "crashed" after an unwrap panicked and "hung" when the analysis never
\* returned.  repl.last, repl.analysis, repl.bytecode and repl.printed
\* record the last line, and repl.assigned is history: the number each name
\* was last assigned by a line that ran.
\* ------------------------------------------------------------------------
ReplNames == {"a", "b"}

\* The lines typed at the prompt, already parsed
Lines ==
    {<<SAssign(PIdent(n), ENumber(v))>> : n \in ReplNames, v \in 1..MaxLit}
    \cup {<<SExpr(EIdent(n))>> : n \in ReplNames}
    \cup {<<SExpr(EIf(EBoolean(c),
                      <<SAssign(PIdent("a"), ENumber(1)), SExpr(ENumber(0))>>,
                      <<SAssign(PIdent("b"), ENumber(2)), SExpr(ENumber(0))>>))>> :
            c \in BOOLEAN}
    \cup {<<SExpr(EIf(EBoolean(TRUE), <<SExpr(EIdent("a"))>>, <<SExpr(ENumber(1))>>))>>,
          <<SExpr(EInfix(EIdent("b"), "+", ENumber(1)))>>}

RECURSIVE Assigns(_, _)
\* The numbers a block assigns to names, statement by statement, an if
\* on a boolean literal assigning what the branch it takes assigns
Assigns(block, assigned) ==
    IF block = <<>> THEN assigned
    ELSE LET stmt == Head(block)
             now == CASE stmt.k = "Assign" /\ stmt.pat.k = "Ident"
                              /\ stmt.value.k = "Number" ->
                            Put(assigned, stmt.pat.name, Number(stmt.value.num))
                      [] stmt.k = "Expr" /\ stmt.value.k = "If"
                              /\ stmt.value.condition.k = "Boolean" ->
                            Assigns(IF stmt.value.condition.bool
                                    THEN stmt.value.consequence
                                    ELSE stmt.value.alternative, assigned)
                      [] OTHER -> assigned
         IN  Assigns(Tail(block), now)

State_new == [symbols |-> SymbolTable_new, constants |-> <<>>, globals |-> <<>>]

InitRepl ==
    /\ program = <<>>
    /\ compiler = Compiler_new
    /\ vm = NoVM
    /\ written = <<>>
    /\ evaluator = Evaluator_new
    /\ pc = [compiler |-> "new", next |-> 0, value |-> Void, evaluator |-> "running"]
    /\ table = Idle
    /\ \E checks \in BOOLEAN :
          repl = [status |-> "ready", context |-> Context_default, state |-> State_new,
                  overflow_checks |-> checks, lines |-> 0, last |-> <<>>,
                  analysis |-> "none", bytecode |-> <<>>, printed |-> <<>>,
                  assigned |-> <<>>]
    /\ front = Idle

\* eval of one line, from the analysis to the replaced state
ReplEval ==
    /\ repl.status = "ready"
    /\ repl.lines < MaxLines
    /\ \E line \in Lines :
       \E analysis \in {analyze_stmts(line, repl.context)} :
       \E c \in {compile(new_with_state(repl.state.symbols, repl.state.constants), line)} :
       \E m \in {IF c.result = "ok"
                 THEN run(new_with_globals(Bytecode(c), repl.state.globals,
                                           repl.overflow_checks))
                 ELSE NoVM} :
          LET read == [repl EXCEPT !.lines = @ + 1, !.last = line,
                                   !.analysis = analysis.res,
                                   !.bytecode = <<>>, !.printed = <<>>]
          IN  repl' =
                CASE analysis.res = "diverges" -> [read EXCEPT !.status = "hung"]
                  [] analysis.res = "err" -> [read EXCEPT !.context = analysis.context]
                  [] OTHER ->
                        IF c.result /= "ok"
                        THEN [read EXCEPT !.status = "crashed",
                                          !.context = analysis.context]
                        ELSE IF m.result /= "ok"
                        THEN [read EXCEPT !.status = "crashed",
                                          !.context = analysis.context,
                                          !.bytecode = c.instructions,
                                          !.state = [@ EXCEPT !.symbols = c.symbols,
                                                              !.constants = c.constants]]
                        ELSE [read EXCEPT !.context = analysis.context,
                                          !.bytecode = c.instructions,
                                          !.printed = last_stack_top(m),
                                          !.state = [symbols |-> c.symbols,
                                                     constants |-> c.constants,
                                                     globals |-> m.globals],
                                          !.assigned = Assigns(line, @)]
    /\ UNCHANGED <<program, compiler, vm, written, evaluator, pc, table, front>>

SpecRepl == InitRepl /\ [][ReplEval]_vars

\* ------------------------------------------------------------------------
\* lexer/mod.rs.  A source text is a sequence of characters, each a string
\* of length one.  input and pos model the Peekable<Chars>: pos characters
\* have been taken from it.  An Option is a sequence of length 0 or 1.
\* panicked records the panic! of read_string.
\* ------------------------------------------------------------------------
Lexer_new(input) == [input |-> input, pos |-> 0, offset |-> 0, panicked |-> FALSE]

\* multipeek(dist): the dist-th character from here, on a clone of the
\* iterator; peek is multipeek(l, 1).
multipeek(l, dist) ==
    IF l.pos + dist <= Len(l.input) THEN <<l.input[l.pos + dist]>> ELSE <<>>

\* read on an iterator that starts over once it has returned None
read_unfused(l) ==
    [l EXCEPT !.offset = @ + 1,
              !.pos = IF @ < Len(l.input) THEN @ + 1 ELSE 0]

\* read adds one to offset whether or not a character is left; what it
\* returns is multipeek(l, 1) of the lexer it is given.
read(l) ==
    [l EXCEPT !.offset = @ + 1,
              !.pos = IF @ < Len(l.input) THEN @ + 1 ELSE @]

\* generate_token, ch just read, with the functions it calls: two_char,
\* read_identifier, read_number, read_string and token::lookup_keyword.  A
\* TokenType is a record [type, text], text the String an Ident, a String
\* or a Symbol carries, and for a Number [type, num], num the f64 parsed
\* from the digits: whole, and frac, the digits after the dot up to the last
\* that is not 0.
generate_token(l, ch) ==
    LET peek(x) == multipeek(x, 1)
        is_letter(c) ==
            c \in {"a", "b", "c", "d", "e", "f", "g", "h", "i", "j", "k", "l", "m",
                   "n", "o", "p", "q", "r", "s", "t", "u", "v", "w", "x", "y", "z",
                   "A", "B", "C", "D", "E", "F", "G", "H", "I", "J", "K", "L", "M",
                   "N", "O", "P", "Q", "R", "S", "T", "U", "V", "W", "X", "Y", "Z",
                   "_"}
        Digits == <<"0", "1", "2", "3", "4", "5", "6", "7", "8", "9">>
        is_digit(c) == \E i \in DOMAIN Digits : Digits[i] = c
        Plain(type) == [type |-> type, text |-> ""]
        one(type) == [l |-> l, tok |-> Plain(type)]
        two_char(expected, single, double) ==
            IF peek(l) = <<expected>>
            THEN [l |-> read(l), tok |-> Plain(double)]
            ELSE one(single)
        RECURSIVE read_identifier(_, _)
        read_identifier(x, ident) ==
            IF peek(x) /= <<>> /\ (is_letter(peek(x)[1]) \/ is_digit(peek(x)[1]))
            THEN read_identifier(read(x), ident \o peek(x)[1])
            ELSE [l |-> x, text |-> ident]
        lookup_keyword(name) ==
            CASE name = "import" -> Plain("Import")
              [] name = "from" -> Plain("From")
              [] name = "as" -> Plain("As")
              [] name = "fn" -> Plain("Function")
              [] name = "return" -> Plain("Return")
              [] name = "true" -> Plain("True")
              [] name = "false" -> Plain("False")
              [] name = "if" -> Plain("If")
              [] name = "then" -> Plain("Then")
              [] name = "else" -> Plain("Else")
              [] OTHER -> [type |-> "Ident", text |-> name]
        RECURSIVE Whole(_, _)
        Whole(number, acc) ==
            IF number = <<>> \/ Head(number) = "." THEN acc
            ELSE Whole(Tail(number),
                       10 * acc + (CHOOSE i \in DOMAIN Digits : Digits[i] = Head(number)) - 1)
        RECURSIVE Frac(_)
        Frac(number) ==
            IF number = <<>> THEN <<>>
            ELSE IF Head(number) = "."
            THEN LET f == Tail(number)
                     last == {i \in DOMAIN f : f[i] /= "0"}
                 IN  SubSeq(f, 1, IF last = {} THEN 0
                                  ELSE CHOOSE i \in last : \A j \in last : j <= i)
            ELSE Frac(Tail(number))
        RECURSIVE read_number(_, _, _)
        read_number(x, number, dot) ==
            IF peek(x) /= <<>>
               /\ (is_digit(peek(x)[1])
                   \/ (peek(x)[1] = "." /\ multipeek(x, 2) /= <<".">>))
            THEN IF peek(x)[1] = "." /\ dot
                 THEN [l |-> read(x), tok |-> Plain("Illegal")]
                 ELSE read_number(read(x), Append(number, peek(x)[1]),
                                  dot \/ peek(x)[1] = ".")
            ELSE [l |-> x,
                  tok |-> [type |-> "Number",
                           num |-> [whole |-> Whole(number, 0), frac |-> Frac(number)]]]
        RECURSIVE read_string(_, _)
        read_string(x, string) ==
            IF peek(x) = <<ch>> THEN [l |-> read(x), tok |-> [type |-> "String", text |-> string]]
            ELSE IF peek(x) = <<>>
            THEN [l |-> [read(x) EXCEPT !.panicked = TRUE], tok |-> Plain("Illegal")]
            ELSE read_string(read(x), string \o peek(x)[1])
    IN  CASE ch = "=" -> two_char("=", "Assign", "Eq")
          [] ch = "+" -> one("Plus")
          [] ch = "-" -> two_char(">", "Minus", "Arrow")
          [] ch = "*" -> one("Asterisk")
          [] ch = "%" -> one("Modulus")
          [] ch = "/" -> one("Slash")
          [] ch = "." -> two_char(".", "Period", "Range")
          [] ch = ">" -> two_char("=", "Greater", "GreaterEq")
          [] ch = "<" -> two_char("=", "Less", "LessEq")
          [] ch = "!" -> two_char("=", "Bang", "NotEq")
          [] ch = "|" -> two_char("|", "Illegal", "Or")
          [] ch = "&" -> two_char("&", "Illegal", "And")
          [] ch = "," -> one("Comma")
          [] ch = ";" -> one("Semicolon")
          [] ch = ":" ->
                IF peek(l) /= <<>> /\ is_letter(peek(l)[1])
                THEN LET r == read_identifier(read(l), peek(l)[1])
                     IN  [l |-> r.l, tok |-> [type |-> "Symbol", text |-> r.text]]
                ELSE two_char(":", "Colon", "Match")
          [] ch \in {"'", "\""} -> read_string(l, "")
          [] ch = "(" -> one("LeftParen")
          [] ch = ")" -> one("RightParen")
          [] ch = "{" -> one("LeftBrace")
          [] ch = "}" -> one("RightBrace")
          [] ch = "[" -> one("LeftBracket")
          [] ch = "]" -> one("RightBracket")
          [] OTHER ->
                IF is_letter(ch)
                THEN LET r == read_identifier(l, ch)
                     IN  [l |-> r.l, tok |-> lookup_keyword(r.text)]
                ELSE IF is_digit(ch) THEN read_number(l, <<ch>>, FALSE)
                ELSE one("Illegal")

\* next_token with skip_whitespace: a Token is [tok, position], position
\* the Range start..end.
next_token(l) ==
    LET RECURSIVE skip_whitespace(_)
        skip_whitespace(x) ==
            IF multipeek(x, 1) /= <<>> /\ multipeek(x, 1)[1] \in {" ", "\t", "\n", "\f", "\r"}
            THEN skip_whitespace(read(x))
            ELSE x
        \* s: the lexer after skip_whitespace, r: after read
        token(s, r) ==
            IF multipeek(s, 1) /= <<>>
            THEN CHOOSE result \in
                    {[l |-> g.l,
                      token |-> [tok |-> g.tok,
                                 position |-> [start |-> r.offset, end |-> g.l.offset]]] :
                        g \in {generate_token(r, multipeek(s, 1)[1])}} : TRUE
            ELSE [l |-> r,
                  token |-> [tok |-> [type |-> "Eof", text |-> ""],
                             position |-> [start |-> 0, end |-> 0]]]
    IN  CHOOSE result \in {token(s, read(s)) : s \in {skip_whitespace(l)}} : TRUE

\* ------------------------------------------------------------------------
\* parser/mod.rs.  A Parser is [l, current_token, peek_token].  A
\* ParseResult is [p, res, expr]: the parser after the call, res "ok" or
\* "err" (no expr then: every caller hands an Err up with `?`), or
\* "unmodelled" for the arms left out here: grouped, if, function, array,
\* call and match expressions and the let, return and import statements,
\* whose first token no text of Inputs holds.  CHOOSE result \in {e : x \in
\* {v}} : TRUE is `let x = v; e`: v is computed once.
\* ------------------------------------------------------------------------
Parser_next_token(p) ==
    CHOOSE result \in
        {[l |-> r.l, current_token |-> p.peek_token, peek_token |-> r.token] :
            r \in {next_token(p.l)}} : TRUE

\* Parser::new: both tokens start as Token::new(), an eof, and next_token is
\* called twice.
Parser_new(l) ==
    LET new == [tok |-> [type |-> "Eof", text |-> ""],
                position |-> [start |-> 0, end |-> 0]]
    IN  Parser_next_token(Parser_next_token(
            [l |-> l, current_token |-> new, peek_token |-> new]))

\* get_precedence, a Precedence being its place in the enum: Lowest 0,
\* Logical 1, Equals 2, LessGreater 3, Range 4, Sum 5, Product 6, Modulus 7,
\* Prefix 8, Match 9, Call 10.  This one has % bind no tighter than * and /.
get_precedence_flat(tok) ==
    CASE tok.type \in {"And", "Or"} -> 1
      [] tok.type \in {"Eq", "NotEq"} -> 2
      [] tok.type \in {"Less", "Greater", "LessEq", "GreaterEq"} -> 3
      [] tok.type = "Range" -> 4
      [] tok.type \in {"Plus", "Minus"} -> 5
      [] tok.type \in {"Slash", "Asterisk", "Modulus"} -> 6
      [] tok.type = "Match" -> 9
      [] tok.type = "LeftParen" -> 10
      [] OTHER -> 0

get_precedence(tok) ==
    CASE tok.type \in {"And", "Or"} -> 1
      [] tok.type \in {"Eq", "NotEq"} -> 2
      [] tok.type \in {"Less", "Greater", "LessEq", "GreaterEq"} -> 3
      [] tok.type = "Range" -> 4
      [] tok.type \in {"Plus", "Minus"} -> 5
      [] tok.type \in {"Slash", "Asterisk"} -> 6
      [] tok.type = "Modulus" -> 7
      [] tok.type = "Match" -> 9
      [] tok.type = "LeftParen" -> 10
      [] OTHER -> 0

RECURSIVE parse_expression(_, _), parse_infix_expression(_, _), parse_hash(_)

\* parse_expression with the prefix parsers parse_identifier, parse_string,
\* parse_symbol, parse_number, parse_boolean and parse_prefix_expression.  A
\* number with a fraction keeps its f64 as it is.
parse_expression(self, precedence) ==
    LET Ok_(p, expr) == [p |-> p, res |-> "ok", expr |-> expr]
        prefix(p, tok) ==
            CASE tok.type = "Ident" -> Ok_(p, EIdent(tok.text))
              [] tok.type = "String" -> Ok_(p, EString(tok.text))
              [] tok.type = "Symbol" -> Ok_(p, [k |-> "Symbol", str |-> tok.text])
              [] tok.type = "Number" ->
                    Ok_(p, IF tok.num.frac = <<>> THEN ENumber(tok.num.whole)
                           ELSE [k |-> "Number", f64 |-> tok.num])
              [] tok.type \in {"Bang", "Minus"} ->
                    CHOOSE result \in
                        {IF right.res /= "ok" THEN right
                         ELSE [right EXCEPT !.expr =
                                 EPrefix(IF tok.type = "Bang" THEN "!" ELSE "-", right.expr)] :
                            right \in {parse_expression(Parser_next_token(p), 8)}} : TRUE
              [] tok.type \in {"True", "False"} -> Ok_(p, EBoolean(tok.type = "True"))
              [] tok.type = "LeftBrace" -> parse_hash(p)
              [] tok.type \in {"LeftParen", "If", "Function", "LeftBracket"} ->
                    [p |-> p, res |-> "unmodelled"]
              [] OTHER -> [p |-> p, res |-> "err"]
        Infix == {"Plus", "Minus", "Range", "Asterisk", "Slash", "Modulus", "Eq",
                  "NotEq", "Greater", "GreaterEq", "And", "Or", "Less", "LessEq"}
        RECURSIVE loop(_)
        loop(left) ==
            IF left.res /= "ok" THEN left
            ELSE IF left.p.peek_token.tok.type /= "Semicolon"
                    /\ precedence < get_precedence(left.p.peek_token.tok)
            THEN IF left.p.peek_token.tok.type \in Infix
                 THEN CHOOSE result \in
                         {loop(infix) :
                             infix \in {parse_infix_expression(Parser_next_token(left.p),
                                                               left.expr)}} : TRUE
                 ELSE [p |-> left.p, res |-> "unmodelled"]
            ELSE left
    IN  CHOOSE result \in
            {loop(left) : left \in {prefix(p, p.current_token.tok) : p \in {self}}} : TRUE

parse_infix_expression(self, left) ==
    LET operator(type) == CASE type = "Plus" -> "+"
                      [] type = "Minus" -> "-"
                      [] type = "Asterisk" -> "*"
                      [] type = "Slash" -> "/"
                      [] type = "Modulus" -> "%"
                      [] type = "Eq" -> "=="
                      [] type = "NotEq" -> "!="
                      [] type = "Greater" -> ">"
                      [] type = "GreaterEq" -> ">="
                      [] type = "Less" -> "<"
                      [] type = "LessEq" -> "<="
                      [] type = "Range" -> ".."
                      [] type = "And" -> "&&"
                      [] type = "Or" -> "||"
                      [] OTHER -> ""
        \* the rest, from `self.next_token()` on
        infix(p, op, precedence) ==
            CHOOSE result \in
                {IF right.res /= "ok" THEN right
                 ELSE [right EXCEPT !.expr = EInfix(left, op, right.expr)] :
                    right \in {parse_expression(Parser_next_token(p), precedence)}} : TRUE
    IN  CHOOSE result \in
            {infix(p, operator(p.current_token.tok.type),
                   get_precedence(p.current_token.tok)) : p \in {self}} : TRUE

\* parse_hash: the first entry, then the loop over `, entry`, then
\* expect_peek(RightBrace).  An entry is <<key, value>>.
parse_hash(p) ==
    LET peek_token_is(q, t) == q.peek_token.tok.type = t
        \* `= value` after the key, from expect_peek(Assign) on
        value(key, items, then(_, _)) ==
            IF ~peek_token_is(key.p, "Assign") THEN [p |-> key.p, res |-> "err"]
            ELSE CHOOSE result \in
                    {IF v.res /= "ok" THEN v
                     ELSE then(v.p, Append(items, <<key.expr.name, v.expr>>)) :
                        v \in {parse_expression(
                                  Parser_next_token(Parser_next_token(key.p)), 0)}} : TRUE
        RECURSIVE rest(_, _)
        rest(q, items) ==
            IF peek_token_is(q, "Comma")
            THEN CHOOSE result \in
                    {IF key.res /= "ok" THEN key
                     ELSE IF key.expr.k /= "Ident"
                     THEN [p |-> key.p, res |-> "ok", expr |-> EHash(items)]
                     ELSE IF peek_token_is(key.p, "Comma")
                     THEN rest(key.p, Append(items, <<key.expr.name, key.expr>>))
                     ELSE value(key, items, rest) :
                        key \in {parse_expression(
                                    Parser_next_token(Parser_next_token(q)), 0)}} : TRUE
            ELSE IF peek_token_is(q, "RightBrace")
            THEN [p |-> Parser_next_token(q), res |-> "ok", expr |-> EHash(items)]
            ELSE [p |-> q, res |-> "err"]
    IN  IF peek_token_is(p, "RightBrace")
        THEN [p |-> Parser_next_token(p), res |-> "ok", expr |-> EHash(<<>>)]
        ELSE CHOOSE result \in
                {IF key.res /= "ok" THEN key
                 ELSE IF key.expr.k /= "Ident"
                 THEN [p |-> key.p, res |-> "ok", expr |-> EHash(<<>>)]
                 ELSE IF peek_token_is(key.p, "Comma") \/ peek_token_is(key.p, "RightBrace")
                 THEN rest(key.p, <<<<key.expr.name, key.expr>>>>)
                 ELSE value(key, <<>>, rest) :
                    key \in {parse_expression(Parser_next_token(p), 0)}} : TRUE

\* parse_program with parse_stmt and parse_expression_stmt: [res, program],
\* res "panic" when the lexer panicked on the way.
parse_program(p) ==
    LET RECURSIVE stmts(_, _)
        stmts(q, block) ==
            IF q.current_token.tok.type = "Eof"
            THEN [res |-> IF q.l.panicked THEN "panic" ELSE "ok", program |-> block]
            ELSE IF q.current_token.tok.type \in {"Let", "Return", "Import"}
            THEN [res |-> "unmodelled", program |-> <<>>]
            ELSE CHOOSE result \in
                    {IF e.p.l.panicked THEN [res |-> "panic", program |-> <<>>]
                     ELSE IF e.res /= "ok" THEN [res |-> e.res, program |-> <<>>]
                     ELSE CHOOSE rest \in
                             {stmts(next, Append(block, SExpr(e.expr))) :
                                 next \in {Parser_next_token(
                                              IF e.p.peek_token.tok.type = "Semicolon"
                                              THEN Parser_next_token(e.p) ELSE e.p)}} : TRUE :
                        e \in {parse_expression(q, 0)}} : TRUE
    IN  CHOOSE result \in {stmts(q, <<>>) : q \in {p}} : TRUE

\* ------------------------------------------------------------------------
\* The front end on one source text: next_token called again and again, as
\* the loops of lexer/lexer_test.rs call it, and the text parsed, compiled
\* and run, as run_tests of vm/vm_test.rs does.  front.tokens is history:
\* the tokens returned so far; front.parsed is what parse_program returned.
\* ------------------------------------------------------------------------
MaxInput == 3

MaxTokens == 5

\* The source texts: every text of at most MaxInput characters over a
\* letter, a digit, a blank, a quote and the characters of the tokens of one
\* and two characters; the chains `x op y op z` of two operators; and the
\* hash literals of at most three entries, each `key` or `key = 1`
Inputs ==
    LET Entry == [a |-> {<<"a">>, <<"a", " ", "=", " ", "1">>},
                  b |-> {<<"b">>, <<"b", " ", "=", " ", "1">>},
                  c |-> {<<"c">>, <<"c", " ", "=", " ", "1">>}]
    IN  UNION {[1..n -> {"a", "1", " ", "=", ".", "-", "\""}] : n \in 0..MaxInput}
        \cup {<<x, " ", op1, " ", y, " ", op2, " ", z>> :
                 x \in {"a", "2", "3", "5"}, y \in {"a", "2", "3", "5"},
                 z \in {"a", "2", "3", "5"},
                 op1 \in {"+", "*", "/", "%"}, op2 \in {"+", "*", "/", "%"}}
        \cup {<<"{", " ">> \o a \o <<" ", "}">> : a \in Entry.a}
        \cup {<<"{", " ">> \o a \o <<",", " ">> \o b \o <<" ", "}">> :
                 a \in Entry.a, b \in Entry.b}
        \cup {<<"{", " ">> \o a \o <<",", " ">> \o b \o <<",", " ">> \o c \o <<" ", "}">> :
                 a \in Entry.a, b \in Entry.b, c \in Entry.c}

InitFront ==
    /\ program = <<>>
    /\ compiler = Compiler_new
    /\ vm = NoVM
    /\ written = <<>>
    /\ evaluator = Evaluator_new
    /\ pc = [compiler |-> "source", next |-> 0, value |-> Void, evaluator |-> "idle"]
    /\ table = Idle
    /\ repl = Idle
    /\ \E source \in Inputs :
          front = [status |-> "open", source |-> source, l |-> Lexer_new(source),
                   tokens |-> <<>>, parsed |-> "none"]

\* One call of next_token; a call that panics returns no token
NextToken ==
    /\ front.status = "open"
    /\ ~front.l.panicked
    /\ Len(front.tokens) < MaxTokens
    /\ \E r \in {next_token(front.l)} :
          front' = [front EXCEPT !.l = r.l,
                                 !.tokens = IF r.l.panicked THEN @ ELSE Append(@, r.token)]
    /\ UNCHANGED <<program, compiler, vm, written, evaluator, pc, table, repl>>

\* run_tests: `Parser::new(Lexer::new(input), ..).parse_program()`, with a
\* lexer of its own.  The program goes on to the compiler when it was parsed
\* and no number in it has a fraction (the text holds no dot).
Parse ==
    /\ front.status = "open"
    /\ pc.compiler = "source"
    /\ \E r \in {parse_program(Parser_new(Lexer_new(front.source)))} :
          /\ front' = [front EXCEPT !.parsed = r.res]
          /\ program' = r.program
          /\ pc' = [pc EXCEPT !.compiler =
                        IF r.res = "ok" /\ \A i \in DOMAIN front.source : front.source[i] /= "."
                        THEN "new" ELSE "stopped"]
    /\ UNCHANGED <<compiler, vm, written, evaluator, table, repl>>

SpecFront == InitFront /\ [][NextToken \/ Parse \/ Compile \/ Step]_vars

\* ------------------------------------------------------------------------
\* code::read_operands, and the compiler and code::make driven on their
\* own: a statement compiled, emit and then remove_last_pop called directly
\* on the starting Compiler, make followed by read_operands.  The Compiler starts as
\* Compiler::new() or as compile leaves it after a program of n statements
\* `true`.  front.did is the last call, front.before the Compiler before the
\* last compile_stmt or emit, front.stmt, front.op and front.operands the
\* arguments of the last call, front.made and front.read what make and
\* read_operands returned.
\* ------------------------------------------------------------------------
\* [operands, offset]: the pair read_operands returns
read_operands(operand_widths, ins) ==
    LET RECURSIVE widths(_, _, _)
        widths(index, operands, offset) ==
            IF index > Len(operand_widths) THEN [operands |-> operands, offset |-> offset]
            ELSE widths(index + 1,
                        IF operand_widths[index] = 2
                        THEN Append(operands, read_u16(Slice(ins, offset, Len(ins))))
                        ELSE operands,
                        offset + operand_widths[index])
    IN  widths(1, <<>>, 0)

MaxStmts == 1

LongProgram == 32766

InitUnits ==
    LET Compiled(n) ==
            IF n = 0 THEN Compiler_new
            ELSE [Compiler_new EXCEPT
                     !.instructions = [i \in 1..(2 * n) |->
                                          IF i % 2 = 1 THEN as_u8("True") ELSE as_u8("Pop")],
                     !.last_instruction = [code |-> "Pop", position |-> 2 * n - 1],
                     !.previous_instruction = [code |-> "True", position |-> 2 * n - 2]]
    IN  /\ program = <<>>
        /\ \E n \in {0, 1, LongProgram} : compiler = Compiled(n)
        /\ vm = NoVM
        /\ written = <<>>
        /\ evaluator = Evaluator_new
        /\ pc = [compiler |-> "new", next |-> 0, value |-> Void, evaluator |-> "idle"]
        /\ table = Idle
        /\ repl = Idle
        /\ front = [status |-> "units", did |-> "none", count |-> 0, before |-> <<>>,
                    stmt |-> <<>>, op |-> "None", operands |-> <<>>, made |-> <<>>,
                    read |-> <<>>]

\* compile_stmt on one more statement: a number, an assignment, or an if on
\* a boolean literal whose branches are empty, a number, an assignment or
\* another if
CompileStmt ==
    LET Inner == SExpr(EIf(EBoolean(TRUE), <<SExpr(ENumber(1))>>, <<SExpr(ENumber(2))>>))
        Branches == {<<>>, <<SExpr(ENumber(1))>>, <<SAssign(PIdent("a"), ENumber(1))>>,
                     <<Inner>>}
    IN  /\ front.status = "units"
        /\ front.did /= "make"
        /\ front.count < MaxStmts
        /\ \E stmt \in {SExpr(ENumber(1)), SAssign(PIdent("a"), ENumber(1))}
                       \cup {SExpr(EIf(EBoolean(TRUE), b1, b2)) :
                                b1 \in Branches, b2 \in Branches} :
              /\ compiler' = compile_stmt(compiler, stmt)
              /\ front' = [front EXCEPT !.did = "compile", !.count = @ + 1,
                                        !.before = <<compiler>>, !.stmt = <<stmt>>,
                                        !.op = "None"]
        /\ UNCHANGED <<program, vm, written, evaluator, pc, table, repl>>

\* emit(op, vec![]) of an opcode without operands
Emit ==
    /\ front.status = "units"
    /\ front.did = "none"
    /\ \E op \in {"Pop", "True"} :
          /\ compiler' = emit(compiler, op, <<>>)
          /\ front' = [front EXCEPT !.did = "emit",
                                    !.before = <<compiler>>, !.stmt = <<>>, !.op = op]
    /\ UNCHANGED <<program, vm, written, evaluator, pc, table, repl>>

\* `if self.last_instruction_is(Opcode::Pop) { self.remove_last_pop(); }`
RemoveLastPop ==
    /\ front.status = "units"
    /\ front.did = "emit"
    /\ last_instruction_is(compiler, "Pop")
    /\ compiler' = remove_last_pop(compiler)
    /\ front' = [front EXCEPT !.did = "remove"]
    /\ UNCHANGED <<program, vm, written, evaluator, pc, table, repl>>

\* make(op, operands) with one operand for each width of op, then
\* read_operands on the bytes after the opcode, as pretty calls it
MakeRead ==
    /\ front.status = "units"
    /\ front.did = "none"
    /\ compiler = Compiler_new
    /\ \E i \in DOMAIN OpcodeTable :
       \E operands \in IF get_definitions(OpcodeTable[i]) = <<>> THEN {<<>>}
                       ELSE {<<x>> : x \in {0, 1, 255, 256, 65534, 65535}} :
       \E made \in {make(OpcodeTable[i], operands)} :
          front' = [front EXCEPT
                       !.did = "make", !.op = OpcodeTable[i], !.operands = operands,
                       !.made = made,
                       !.read = <<read_operands(get_definitions(OpcodeTable[i]),
                                                Slice(made, 1, Len(made)))>>]
    /\ UNCHANGED <<program, compiler, vm, written, evaluator, pc, table, repl>>

SpecUnits == InitUnits /\ [][CompileStmt \/ Emit \/ RemoveLastPop \/ MakeRead]_vars

\* ------------------------------------------------------------------------
\* Properties of the two back-ends (specification Spec)
\* ------------------------------------------------------------------------
VMFinished == vm.result \in {"ok", "err", "panic"}

\* The value on top of the stack a running VM is about to work on
Top(m) == At(m.stack, m.sp - 1)

\* C1: for every program of the kinds both back-ends implement, once run and
\* eval_program have both finished, both produced a value and the VM's
\* (the last popped stack slot) equals the evaluator's, or neither did.
C1_BackEndsAgree ==
    (program \in CommonPrograms /\ VMFinished /\ pc.evaluator /= "running")
        => \/ /\ vm.result = "ok"
              /\ pc.evaluator = "ok"
              /\ last_stack_top(vm) = <<pc.value>>
           \/ /\ vm.result /= "ok"
              /\ pc.evaluator /= "ok"

\* C2: a statement of eval_program that is a call expression (or assigns
\* one) leaves the evaluator's current environment the one it was before
\* the call, whether the call returned a value or an error.
C2_CallRestoresEnv ==
    [][(/\ pc.evaluator = "running"
        /\ pc.next < Len(program)
        /\ At(program, pc.next).k \in {"Expr", "Assign"}
        /\ At(program, pc.next).value.k = "Call"
        /\ pc' /= pc)
            => evaluator'.env = evaluator.env]_vars

RECURSIVE HasReturn(_)
HasReturn(obj) ==
    \/ obj.t = "Return"
    \/ obj.t = "Array" /\ \E i \in DOMAIN obj.items : HasReturn(obj.items[i])

\* C3: no return-wrapper is ever bound to a name or stored as an array
\* element: the value of a call expression is never a return-wrapper.
C3_ReturnIsTransient ==
    \A id \in DOMAIN evaluator.envs :
        \A n \in DOMAIN evaluator.envs[id].store :
            ~HasReturn(evaluator.envs[id].store[n])

\* C4: in the VM only boolean(true) is truthy: Bang on any other value
\* pushes boolean(true), and JumpNotTruthy on any other value jumps to its
\* target.
C4_OnlyTrueIsTruthy ==
    [][(/\ Fetch(vm) \in {"Bang", "JumpNotTruthy"}
        /\ vm.sp > 0
        /\ Top(vm) /= Boolean(TRUE)
        /\ vm' /= vm)
            => /\ vm'.result = "running"
               /\ Fetch(vm) = "Bang" => Top(vm') = Boolean(TRUE)
               /\ Fetch(vm) = "JumpNotTruthy" => vm'.ip = Operand(vm)]_vars

\* C5: a GetGlobal i executed after a SetGlobal i pushes the value that
\* SetGlobal i most recently wrote, whichever other indexes were written.
C5_GetGlobalReadsLastSet ==
    [][(/\ Fetch(vm) = "GetGlobal"
        /\ HasOperand(vm)
        /\ Operand(vm) \in DOMAIN written
        /\ vm' /= vm)
            => /\ vm'.result = "running"
               /\ Top(vm') = written[Operand(vm)]]_vars

\* The number of values the instruction at ip takes off the stack
Pops(m) ==
    CASE Fetch(m) \in {"Add", "Sub", "Mul", "Div", "Mod", "Greater", "GreaterEqual",
                       "Equal", "NotEqual"} -> 2
      [] Fetch(m) \in {"Pop", "Minus", "Bang", "JumpNotTruthy", "SetGlobal"} -> 1
      [] Fetch(m) = "Array" -> Operand(m)
      [] OTHER -> 0

\* C8: the bytecode of a program the compiler accepted never pops from an
\* empty stack, and when run finishes sp = 0 and, the last statement being
\* an expression statement, the slot above the stack pointer holds a value.
C8_StackBalanced ==
    (pc.compiler = "compiled" /\ compiler.result = "ok")
        => /\ vm.result = "running" => Pops(vm) <= vm.sp
           /\ vm.result /= "panic"
           /\ vm.result = "ok" => vm.sp = 0
           /\ (vm.result = "ok" /\ program[Len(program)].k = "Expr")
                 => last_stack_top(vm) /= <<>>

\* The offset just after the code of the if-expression that is the first
\* statement of the program: that of the Pop closing the statement.
IfEnd == Len(compile(Compiler_new, <<program[1]>>).instructions) - 1

\* C9: the code of an if-expression, whatever its blocks hold, leaves
\* exactly one more value on the stack than was there before its condition
\* (none, the if being the first statement), on either path.
C9_IfLeavesOneValue ==
    (/\ program \in IfPrograms
     /\ pc.compiler = "compiled"
     /\ vm.result = "running"
     /\ vm.ip = IfEnd)
        => vm.sp = 1

RECURSIVE PatternMatches(_, _)
\* The matching rule of the language: a literal matches the equal value,
\* an identifier and _ match anything, an array pattern matches an array of
\* the same length whose elements match position by position.
PatternMatches(pattern, value) ==
    CASE pattern.k \in {"Ident", "Nothing"} -> TRUE
      [] pattern.k = "Number" -> value = Number(pattern.num)
      [] pattern.k = "Boolean" -> value = Boolean(pattern.bool)
      [] pattern.k = "Array" ->
            /\ value.t = "Array"
            /\ Len(value.items) = Len(pattern.items)
            /\ \A i \in DOMAIN pattern.items :
                  PatternMatches(pattern.items[i], value.items[i])

\* The value the language gives the match expression of a program of
\* MatchPrograms: the body of the first matching case (the i-th body is
\* the number i), void when none matches.
MatchValue ==
    LET scrutinee == eval_expr(Evaluator_new, program[1].value.condition).val
        cases == program[1].value.cases
        hits == {i \in DOMAIN cases : PatternMatches(cases[i][1], scrutinee)}
    IN  IF hits = {} THEN Void
        ELSE Number(CHOOSE i \in hits : \A j \in hits : i <= j)

\* C10: a match expression yields the body of the first case whose pattern
\* matches, skips a case that does not match without an error, and is void
\* when no case matches.
C10_MatchFirstCase ==
    (program \in MatchPrograms /\ pc.evaluator /= "running")
        => /\ pc.evaluator = "ok"
           /\ pc.value = MatchValue

\* The evaluator has left eval_program
EvalFinished == pc.evaluator /= "running"

\* C11: an array pattern matches an array scrutinee if and only if both
\* have the same length and every sub-pattern matches the element at its
\* position: the one case's body (the number 1) is the value exactly then.
C11_ArrayPatternLength ==
    (/\ program \in MatchPrograms
     /\ program[1].value.condition.k = "Array"
     /\ Len(program[1].value.cases) = 1
     /\ program[1].value.cases[1][1].k = "Array"
     /\ EvalFinished)
        => /\ pc.evaluator = "ok"
           /\ pc.value = Number(1)
                 <=> PatternMatches(program[1].value.cases[1][1],
                                    eval_expr(Evaluator_new,
                                              program[1].value.condition).val)

\* C12: a match expression binds in a fresh child scope: when it has
\* finished, the environment that was current before it (the root) is
\* current again and holds exactly the bindings it held before.
C12_MatchScopeIsFresh ==
    (program \in MatchPrograms /\ EvalFinished)
        => /\ evaluator.env = Evaluator_new.env
           /\ evaluator.envs[Evaluator_new.env] = Evaluator_new.envs[Evaluator_new.env]

\* The value stored under key in a hash literal of number literals, null
\* when the key is missing
HashLookup(pairs, key) ==
    IF \E i \in DOMAIN pairs : pairs[i][1] = key
    THEN Number((pairs[CHOOSE i \in DOMAIN pairs : pairs[i][1] = key][2]).num)
    ELSE Null

\* C13: a hash pattern matches every hash scrutinee: the key it names is
\* read (null when missing) and bound, and the body, which reads the bound
\* name, gives the value of the match.
C13_HashPatternMatches ==
    (program \in HashMatchPrograms /\ EvalFinished)
        => /\ pc.evaluator = "ok"
           /\ pc.value = HashLookup(program[1].value.condition.pairs,
                                    program[1].value.cases[1][1].pairs[1][1])

\* The array pattern of the assignment does not overrun the array assigned
ArrayFits ==
    /\ program[1].value.k = "Array"
    /\ Len(program[1].pat.items) <= Len(program[1].value.items)

\* C14: an assignment to an array pattern binds each name to the element
\* at its position; when the value is no array or the pattern overruns it
\* the assignment itself yields an error: it neither succeeds nor aborts.
C14_ArrayAssign ==
    program \in ArrayAssignPrograms
        => IF ArrayFits
           THEN pc.next >= 1 =>
                   \A i \in DOMAIN program[1].pat.items :
                       get(evaluator.envs, evaluator.env, program[1].pat.items[i].name)
                          = <<Number(program[1].value.items[i].num)>>
           ELSE /\ pc.next = 0
                /\ EvalFinished => pc.evaluator = "err"

\* C15: an assignment to a hash pattern binds the alias, or the key when
\* there is none, to the value under the key (null when missing): the read
\* of that name that follows gives it.
C15_HashAssign ==
    (program \in HashAssignPrograms /\ EvalFinished)
        => /\ pc.evaluator = "ok"
           /\ pc.value = HashLookup(program[1].value.pairs, program[1].pat.pairs[1][1])

\* C16: head, last, tail and init on any one argument, and indexing an
\* array or a hash with an index or key that is or is not there, end in a
\* value or an error, never in an abort.
C16_EvaluatorNeverAborts ==
    program \in BuiltinPrograms \cup MemberPrograms => pc.evaluator /= "panic"

\* C17: an instruction that pops more values than the stack holds makes run
\* return an error, and the stack pointer does not go below 0.
C17_UnderflowIsError ==
    [][(/\ Fetch(vm) /= "None"
        /\ Pops(vm) > vm.sp
        /\ vm' /= vm)
            => /\ vm'.result = "err"
               /\ vm'.sp >= 0]_vars

\* C18: in every state of the VM 0 <= sp <= STACK_SIZE.
C18_StackPointerBounds ==
    vm.result /= "none" => 0 <= vm.sp /\ vm.sp <= STACK_SIZE

\* C19: GetGlobal i on a slot that no SetGlobal i has written makes run
\* return an error: it pushes nothing and does not abort.
C19_UnsetGlobalIsError ==
    [][(/\ Fetch(vm) = "GetGlobal"
        /\ HasOperand(vm)
        /\ Operand(vm) \notin DOMAIN written
        /\ vm' /= vm)
            => /\ vm'.result = "err"
               /\ vm'.sp = vm.sp]_vars

\* C20: compiling a program that holds a hash literal, a function literal,
\* a call, a match or a member expression returns an error.
C20_UnsupportedIsCompileError ==
    (program \in SkippedPrograms /\ pc.compiler = "compiled")
        => compiler.result = "err"

\* ------------------------------------------------------------------------
\* Properties of the symbol table (specification SpecSym)
\* ------------------------------------------------------------------------

\* C6: after any sequence of define calls, resolve(name) carries the index
\* name was given at its first define, and as many distinct indexes have
\* been handed out as there are distinct names.
C6_RedefineReusesIndex ==
    /\ \A name \in DOMAIN table.first :
          /\ resolve(table.symbols, name) /= <<>>
          /\ resolve(table.symbols, name)[1].index = table.first[name]
    /\ Cardinality(table.handed) = Cardinality(DOMAIN table.first)

\* ------------------------------------------------------------------------
\* Properties of the REPL (specification SpecRepl)
\* ------------------------------------------------------------------------

\* C7: a line that passed the analysis and reads a name an earlier line
\* assigned prints the number of the name's most recent assignment, and a
\* line that passed the analysis and assigns a number literal compiles to a
\* Constant whose operand indexes that number in the carried constant pool.
C7_ReplCarriesState ==
    [][(repl'.lines = repl.lines + 1 /\ repl'.analysis = "ok")
          => /\ \A n \in DOMAIN repl.assigned :
                   repl'.last = <<SExpr(EIdent(n))>>
                      => /\ repl'.status = "ready"
                         /\ repl'.printed = <<repl.assigned[n]>>
             /\ \A n \in ReplNames, v \in 1..MaxLit :
                   repl'.last = <<SAssign(PIdent(n), ENumber(v))>>
                      => /\ repl'.status = "ready"
                         /\ At(repl'.bytecode, 0) = as_u8("Constant")
                         /\ At(repl'.state.constants, read_u16(Slice(repl'.bytecode, 1, 3)))
                               = Number(v)]_vars

\* ------------------------------------------------------------------------
\* Properties of the front end (specification SpecFront)
\* ------------------------------------------------------------------------
IsEof(token) == token.tok.type = "Eof"

\* C21: every token next_token returns after an eof is an eof, and on the
\* empty source the first token returned is an eof.
C21_EofForEver ==
    front.status = "open" =>
        /\ \A i, j \in DOMAIN front.tokens :
              (i < j /\ IsEof(front.tokens[i])) => IsEof(front.tokens[j])
        /\ (front.source = <<>> /\ front.tokens /= <<>>) => IsEof(front.tokens[1])

\* Some token came before the eof, and two more calls returned eof again
C21_Witness ==
    /\ front.status = "open"
    /\ Len(front.tokens) >= 4
    /\ ~IsEof(front.tokens[1])
    /\ \E i \in DOMAIN front.tokens :
          /\ i + 2 <= Len(front.tokens)
          /\ \A j \in i..(i + 2) : IsEof(front.tokens[j])

\* The first non-blank character at or after the one the lexer stands at
\* (offsets from 0), Len(source) when there is none
FirstNonBlank(source, pos) ==
    LET rest == {k \in pos..(Len(source) - 1) :
                    source[k + 1] \notin {" ", "\t", "\n", "\f", "\r"}}
    IN  IF rest = {} THEN Len(source)
        ELSE CHOOSE k \in rest : \A m \in rest : k <= m

\* C22: a token that is no eof carries position start..end with start the
\* offset of its first character, which is the first character after the
\* blanks that follow the token before it, and end one past its last
\* character, which is where the lexer stands after it.
C22_TokenRanges ==
    [][(front.status = "open" /\ Len(front'.tokens) > Len(front.tokens)
            /\ ~IsEof(front'.tokens[Len(front'.tokens)]))
        => LET token == front'.tokens[Len(front'.tokens)]
           IN  /\ token.position.start = FirstNonBlank(front.source, front.l.pos)
               /\ token.position.end = front'.l.pos]_vars

\* A text `x op1 y op2 z` of Inputs
IsChain(source) ==
    /\ Len(source) = 9
    /\ source[3] \in {"+", "*", "/", "%"}
    /\ source[7] \in {"+", "*", "/", "%"}

\* The tree of an operand of a chain: a name or a number of one digit
Leaf(x) ==
    IF x = "a" THEN EIdent(x)
    ELSE ENumber(CHOOSE n \in 0..9 : <<"0", "1", "2", "3", "4", "5", "6", "7", "8", "9">>[n + 1] = x)

\* How tight an operator binds, as the language has it
Binds(op) == CASE op = "%" -> 3 [] op \in {"*", "/"} -> 2 [] op \in {"+", "-"} -> 1

C24_ChainLeftToRight ==
    LET s == front.source
    IN  (front.status = "open" /\ IsChain(s) /\ s[3] = "*" /\ s[7] \in {"%", "+"}
            /\ "a" \notin {s[1], s[5], s[9]} /\ VMFinished)
        => /\ vm.result = "ok"
           /\ last_stack_top(vm) =
                <<F64Arith(s[7], F64Arith("*", Number(Leaf(s[1]).num), Number(Leaf(s[5]).num)),
                           Number(Leaf(s[9]).num))>>

RECURSIVE Entries(_, _)
\* The entries a hash literal of Inputs writes, read off its text from its
\* i-th character on: `key` stands for key = key
Entries(source, i) ==
    LET key == source[i]
        assigned == source[i + 1] = " " /\ source[i + 2] = "="
        entry == IF assigned THEN <<key, ENumber(1)>> ELSE <<key, EIdent(key)>>
        next == IF assigned THEN i + 5 ELSE i + 1
    IN  IF source[next] = "," THEN <<entry>> \o Entries(source, next + 2)
        ELSE <<entry>>

\* C25: a hash literal parses to its entries in order, an entry `key` with
\* no `= expr` giving (key, identifier key) wherever it stands: first, in
\* the middle or last.
C25_HashShorthand ==
    (front.status = "open" /\ front.parsed /= "none" /\ front.source /= <<>>
        /\ front.source[1] = "{")
    => /\ front.parsed = "ok"
       /\ program = <<SExpr(EHash(Entries(front.source, 3)))>>

\* ------------------------------------------------------------------------
\* Properties of the semantic pre-pass (specification SpecRepl)
\* ------------------------------------------------------------------------
\* C29: Context::has terminates for every context chain and answers as
\* Context::lookup does.  When the REPL reads the line
\* `if true { a } else { 1 }`, the identifier is analysed in a child block
\* of the session's context: the analysis returns, with Ok when lookup
\* finds the name in that chain and with an error when it does not.
C29_HasTerminates ==
    [][\A n \in ReplNames :
          (/\ repl'.lines = repl.lines + 1
           /\ repl'.last = <<SExpr(EIf(EBoolean(TRUE), <<SExpr(EIdent(n))>>,
                                       <<SExpr(ENumber(1))>>))>>)
             => repl'.analysis = IF lookup(new_child_block(repl.context), n)
                                 THEN "ok" ELSE "err"]_vars

\* ------------------------------------------------------------------------
\* Properties of the compiler and of code::make on their own
\* (specification SpecUnits)
\* ------------------------------------------------------------------------
\* C27: remove_last_pop called right after emit(Pop, []) gives back the
\* Compiler as it was before the emit: the same instruction bytes, the same
\* last-instruction record and the same previous-instruction record.
C27_RemoveLastPopRestores ==
    (front.status = "units" /\ front.did = "remove" /\ front.op = "Pop")
        => /\ compiler.instructions = front.before[1].instructions
           /\ compiler.last_instruction = front.before[1].last_instruction
           /\ compiler.previous_instruction = front.before[1].previous_instruction

RECURSIVE Starts(_, _)
\* The offsets at which the instructions of ins from offset at on begin
Starts(ins, at) ==
    IF at >= Len(ins) THEN {}
    ELSE {at} \cup Starts(ins, at + 1 + Len(get_definitions(from_u8(At(ins, at)))) * 2)

\* The operand of the jump at offset at
Target(ins, at) == read_u16(Slice(ins, at + 1, at + 3))

\* C26: after an if-expression is compiled, the operand of its
\* JumpNotTruthy is the offset just after its Jump, the operand of its Jump
\* is the offset just after the else-branch, no placeholder is left, and
\* every target is an instruction boundary within the buffer; and so for
\* the if-expressions nested in its branches.  Checked on a statement that
\* is an if-expression: its condition is one byte, its JumpNotTruthy
\* follows, and the Pop of the statement follows its else-branch.
C26_IfJumpsPatched ==
    (/\ front.status = "units"
     /\ front.did = "compile"
     /\ front.stmt[1].k = "Expr"
     /\ front.stmt[1].value.k = "If")
        => LET ins == compiler.instructions
               base == Len(front.before[1].instructions)
               starts == Starts(ins, base)
           IN  /\ At(ins, base + 1) = as_u8("JumpNotTruthy")
               /\ Target(ins, base + 1) - 3 \in starts
               /\ Target(ins, Target(ins, base + 1) - 3) = Len(ins) - 1
               /\ \A at \in starts :
                     /\ At(ins, at) = as_u8("JumpNotTruthy")
                           => /\ Target(ins, at) \in starts
                              /\ Target(ins, at) - 3 \in starts
                              /\ At(ins, Target(ins, at) - 3) = as_u8("Jump")
                     /\ At(ins, at) = as_u8("Jump")
                           => /\ Target(ins, at) \in starts
                              /\ Target(ins, at) /= 9999

\* C30: every jump the compiler emits targets an offset strictly greater
\* than the offset of the jump itself, so that the instruction pointer of
\* the VM only moves forward and run ends.
C30_JumpsForward ==
    (front.status = "units" /\ front.did = "compile")
        => \A at \in Starts(compiler.instructions, Len(front.before[1].instructions)) :
              At(compiler.instructions, at) \in {as_u8("JumpNotTruthy"), as_u8("Jump")}
                 => Target(compiler.instructions, at) > at

====
